---- MODULE Spec2Model ----
(***************************************************************************)
(* The u-blox protocol engine of main/ublox.c: the UBX frame encoder       *)
(* (ubx_encode_send), the byte-stream demultiplexer (proc_byte) with its   *)
(* decoder state, and the calls it makes to ubx_decode and to the NMEA     *)
(* collaborator (nmea_decode_string).                                      *)
(*                                                                         *)
(* Bytes are integers 0..255; uint8_t arithmetic is taken mod 256.  The    *)
(* two buffers of decoder_state are kept as maps from index to non-zero    *)
(* byte: a cell that is absent holds 0, as after the memset of             *)
(* reset_decoder_state.                                                    *)
(***************************************************************************)
EXTENDS Integers, Sequences, FiniteSets, TLC

VARIABLES
    m_decoder_state,  \* the decoder_state instance (ublox.c:63)
    uart_rx,          \* bytes on the serial line not yet read by rx_task
    uart_tx,          \* byte sequences handed to uart_write_bytes, in order
    decoded,          \* calls of ubx_decode so far: <<[class, id, len, msg]>>
    nmea_lines,       \* calls of nmea_decode_string so far: the strings
    rx_frame,         \* bytes the UBX path claimed since the last sync pair
    last,             \* what the most recent proc_byte call did
    scn,              \* the traffic scenario being played on the line
    fed,              \* number of bytes given to proc_byte so far
    wait_sem,         \* count of the binary semaphore wait_sem (ublox.c:64)
    wait_was_ack,     \* the recorded outcome (ublox.c:65)
    req,              \* the thread that issues configuration requests
    rx_log,           \* what the most recent ubx_decode call did
    sem_log,          \* whose give the semaphore holds, takes since a give
    enc_ubx,          \* the static buffer ubx of ubx_encode_send (ublox.c:1125)
    snd,              \* the threads inside ubx_encode_send
    should_terminate, \* ublox.c:68
    thd_rx_is_running,\* ublox.c:69
    m_uart_num,       \* ublox.c:70
    m_init_ok,        \* ublox.c:66
    uart_drv,         \* the UART ports with an installed driver
    rx_tasks,         \* the receive tasks created and not yet deleted
    app,              \* the thread that calls ublox_init and ublox_stop
    rx_cb,            \* the subscriber callbacks (ublox.c:118-123), 0 = NULL
    m_print_next,     \* the one-shot dump flags (ublox.c:56-62)
    dsp,              \* what the most recent handler call of ubx_decode did
    cod,              \* a field codec call: its arguments and its results
    ops,              \* a configuration request call and what it did
    race,             \* a proc_byte call split at its payload store
    tp5               \* a ublox_cfg_tp5 call: its argument and what it sent

life_vars == <<should_terminate, thd_rx_is_running, m_uart_num, m_init_ok,
               uart_drv, rx_tasks, app>>

ext_vars == <<rx_cb, m_print_next, dsp, cod, ops, race, tp5>>

sys_vars == <<wait_sem, wait_was_ack, req, rx_log, sem_log, enc_ubx, snd,
              life_vars, ext_vars>>

vars == <<m_decoder_state, uart_rx, uart_tx, decoded, nmea_lines, rx_frame,
          last, scn, fed, sys_vars>>

---------------------------------------------------------------------------
(* Program constants *)

LINE_BUFFER_SIZE == 256
UBX_BUFFER_SIZE == 2000
SYNC1 == 181             \* 0xB5
SYNC2 == 98              \* 0x62
LINE_FEED == 10          \* '\n'
UBX_CLASS_CFG == 6
UBX_CFG_MSG == 1

(* Bounds of the model *)

MaxFeed == 8             \* bytes fed in the free-stream specification
MaxLen == 2              \* payload length of the frames sent in scenarios
MaxOver == 5             \* bytes fed after a frame has filled the UBX buffer
MaxExtra == 3            \* bytes fed after a line has filled the line buffer

---------------------------------------------------------------------------
(* Integer helpers *)

Pow2(k) == 2 ^ k

Bit(x, k) == (x \div Pow2(k)) % 2

(* One bit of a byte inverted. *)
FlipBit(b, k) == IF Bit(b, k) = 1 THEN b - Pow2(k) ELSE b + Pow2(k)

RECURSIVE BitOr(_, _)
BitOr(a, b) ==
    IF a = 0 THEN b
    ELSE IF b = 0 THEN a
    ELSE (IF a % 2 = 1 \/ b % 2 = 1 THEN 1 ELSE 0) + 2 * BitOr(a \div 2, b \div 2)

(* Byte lane k (0 = least significant) of a 32-bit two's complement int. *)
Lane(x, k) == (x \div Pow2(8 * k)) % 256

(* x with byte lane k replaced by b, as a signed 32-bit value. *)
SetLane(x, k, b) ==
    IF k < 3
    THEN x + (b - Lane(x, k)) * Pow2(8 * k)
    ELSE LET hi == x \div Pow2(24)
             lo == x - hi * Pow2(24)
             nh == IF b >= 128 THEN b - 256 ELSE b
         IN  nh * Pow2(24) + lo

Inc32(x) == IF x = 2147483647 THEN -2147483647 - 1 ELSE x + 1

---------------------------------------------------------------------------
(* Buffers: index -> non-zero byte; absent cells read 0. *)

EmptyBuf == [i \in {} |-> 0]

Rd(buf, i) == IF i \in DOMAIN buf THEN buf[i] ELSE 0

Wr(buf, i, v) ==
    IF v = 0
    THEN [j \in (DOMAIN buf) \ {i} |-> buf[j]]
    ELSE [j \in (DOMAIN buf) \cup {i} |-> IF j = i THEN v ELSE buf[j]]

(* The first n cells of a buffer as a sequence. *)
Cells(buf, n) == [k \in 1..n |-> Rd(buf, k - 1)]

(* The NUL-terminated string that starts at line[0]. *)
CStr(line) ==
    LET n == CHOOSE i \in 0..LINE_BUFFER_SIZE :
                 /\ (i = LINE_BUFFER_SIZE \/ i \notin DOMAIN line)
                 /\ \A j \in 0..(i - 1) : j \in DOMAIN line
    IN  Cells(line, n)

---------------------------------------------------------------------------
(* decoder_state and reset_decoder_state *)

reset_decoder_state ==
    [line |-> EmptyBuf, ubx |-> EmptyBuf, line_pos |-> 0, ubx_pos |-> 0,
     ubx_class |-> 0, ubx_id |-> 0, ubx_ck_a |-> 0, ubx_ck_b |-> 0,
     ubx_len |-> 0]

(* Byte offsets of the members of decoder_state (uint8_t arrays, 4-byte    *)
(* little-endian int, no padding: the arrays end on a multiple of 4).      *)
OFF_ubx == LINE_BUFFER_SIZE
OFF_line_pos == OFF_ubx + UBX_BUFFER_SIZE
OFF_ubx_pos == OFF_line_pos + 4
OFF_ubx_class == OFF_ubx_pos + 4
OFF_ubx_id == OFF_ubx_class + 1
OFF_ubx_ck_a == OFF_ubx_id + 1
OFF_ubx_ck_b == OFF_ubx_ck_a + 1
OFF_ubx_len == OFF_ubx_ck_b + 1
SIZEOF_decoder_state == OFF_ubx_len + 4

(* The decoder state after the byte at offset o of the struct is set to b; *)
(* an offset outside the struct belongs to another object.                 *)
StoreAt(ds, o, b) ==
    IF o < 0 \/ o >= SIZEOF_decoder_state THEN ds
    ELSE IF o < OFF_ubx THEN [ds EXCEPT !.line = Wr(@, o, b)]
    ELSE IF o < OFF_line_pos THEN [ds EXCEPT !.ubx = Wr(@, o - OFF_ubx, b)]
    ELSE IF o < OFF_ubx_pos
         THEN [ds EXCEPT !.line_pos = SetLane(@, o - OFF_line_pos, b)]
    ELSE IF o < OFF_ubx_class
         THEN [ds EXCEPT !.ubx_pos = SetLane(@, o - OFF_ubx_pos, b)]
    ELSE IF o = OFF_ubx_class THEN [ds EXCEPT !.ubx_class = b]
    ELSE IF o = OFF_ubx_id THEN [ds EXCEPT !.ubx_id = b]
    ELSE IF o = OFF_ubx_ck_a THEN [ds EXCEPT !.ubx_ck_a = b]
    ELSE IF o = OFF_ubx_ck_b THEN [ds EXCEPT !.ubx_ck_b = b]
    ELSE [ds EXCEPT !.ubx_len = SetLane(@, o - OFF_ubx_len, b)]

(* The values a read of the byte at offset o of the struct can give. *)
ReadAt(ds, o) ==
    IF o < 0 \/ o >= SIZEOF_decoder_state THEN 0..255
    ELSE IF o < OFF_ubx THEN {Rd(ds.line, o)}
    ELSE IF o < OFF_line_pos THEN {Rd(ds.ubx, o - OFF_ubx)}
    ELSE IF o < OFF_ubx_pos THEN {Lane(ds.line_pos, o - OFF_line_pos)}
    ELSE IF o < OFF_ubx_class THEN {Lane(ds.ubx_pos, o - OFF_ubx_pos)}
    ELSE IF o = OFF_ubx_class THEN {ds.ubx_class}
    ELSE IF o = OFF_ubx_id THEN {ds.ubx_id}
    ELSE IF o = OFF_ubx_ck_a THEN {ds.ubx_ck_a}
    ELSE IF o = OFF_ubx_ck_b THEN {ds.ubx_ck_b}
    ELSE {Lane(ds.ubx_len, o - OFF_ubx_len)}

(* A one-byte store through an array member with the index outside the     *)
(* array, at offset o of the struct: the store takes effect at that         *)
(* address, or the value the function already holds for the member         *)
(* prevails and the decoder state is as before.                            *)
Corrupt(ds, o, b) == {ds, StoreAt(ds, o, b)}

---------------------------------------------------------------------------
(* proc_byte, UBX side *)

(* The UBX side looks at a byte only while no line is being accumulated. *)
ubx_gate(ds) == ds.line_pos = 0

(* Variant: ubx_ck_b accumulates the byte instead of ubx_ck_a. *)
ck_add_b_plain(ds, ch) ==
    [ds EXCEPT !.ubx_ck_a = (@ + ch) % 256, !.ubx_ck_b = (@ + ch) % 256]

(* ubx_ck_a += ch; ubx_ck_b += ubx_ck_a; on uint8_t. *)
ck_add(ds, ch) ==
    LET a == (ds.ubx_ck_a + ch) % 256
    IN  [ds EXCEPT !.ubx_ck_a = a, !.ubx_ck_b = (ds.ubx_ck_b + a) % 256]

pos_inc(ds) == [ds EXCEPT !.ubx_pos = Inc32(@)]

(* ubx[ubx_pos - 6] = ch: the decoder states the store can leave. *)
ubx_store(ds, ch) ==
    LET i == ds.ubx_pos - 6
    IN  IF i \in 0..(UBX_BUFFER_SIZE - 1)
        THEN {[ds EXCEPT !.ubx = Wr(@, i, ch)]}
        ELSE Corrupt(ds, OFF_ubx + i, ch)

(* Variant: the ck_a byte is not compared. *)
ck_a_any(ds, ch) == TRUE

ck_a_match(ds, ch) == ch = ds.ubx_ck_a

ck_b_match(ds, ch) == ch = ds.ubx_ck_b

(* The arguments of the ubx_decode call: the payload is what the pointer   *)
(* and length can reference inside the buffer.                             *)
DecodeCall(ds) ==
    LET n == IF ds.ubx_len < 0 THEN 0
             ELSE IF ds.ubx_len > UBX_BUFFER_SIZE THEN UBX_BUFFER_SIZE
             ELSE ds.ubx_len
    IN  [class |-> ds.ubx_class, id |-> ds.ubx_id, len |-> ds.ubx_len,
         msg |-> Cells(ds.ubx, n)]

(* Variant: ubx_pos is left as it is after the dispatch. *)
dispatch_keep_pos(ds) == ds

(* ubx_pos = 0 after the dispatch. *)
dispatch_reset(ds) == [ds EXCEPT !.ubx_pos = 0]

(* The if-chain on ubx_pos.  Each outcome: the decoder state, the          *)
(* ubx_decode calls made and the payload indices written.                  *)
ubx_path(ds, ch) ==
    LET pos == ds.ubx_pos
        One(d) == {[ds |-> d, dec |-> <<>>, ubx_wr |-> {}]}
    IN  IF pos = 0 THEN
            One(IF ch = SYNC1 THEN pos_inc(ds) ELSE ds)
        ELSE IF pos = 1 THEN
            One(IF ch = SYNC2
                THEN [pos_inc(ds) EXCEPT !.ubx_ck_a = 0, !.ubx_ck_b = 0]
                ELSE ds)
        ELSE IF pos = 2 THEN
            One(pos_inc(ck_add([ds EXCEPT !.ubx_class = ch], ch)))
        ELSE IF pos = 3 THEN
            One(pos_inc(ck_add([ds EXCEPT !.ubx_id = ch], ch)))
        ELSE IF pos = 4 THEN
            One(pos_inc(ck_add([ds EXCEPT !.ubx_len = ch], ch)))
        ELSE IF pos = 5 THEN
            One(pos_inc(ck_add(
                [ds EXCEPT !.ubx_len = SetLane(@, 1, BitOr(Lane(@, 1), ch))],
                ch)))
        ELSE IF (pos - 6) < ds.ubx_len THEN
            {[ds |-> pos_inc(ck_add(d, ch)), dec |-> <<>>, ubx_wr |-> {pos - 6}] :
                d \in ubx_store(ds, ch)}
        ELSE IF (pos - 6) = ds.ubx_len THEN
            One(IF ck_a_match(ds, ch) THEN pos_inc(ds) ELSE ds)
        ELSE IF (pos - 6) = ds.ubx_len + 1 THEN
            IF ck_b_match(ds, ch)
            THEN {[ds |-> dispatch_reset(ds), dec |-> <<DecodeCall(ds)>>,
                   ubx_wr |-> {}]}
            ELSE One(ds)
        ELSE One(ds)

(* ubx_pos_last != ubx_pos: the byte is used; otherwise ubx_pos = 0. *)
ubx_side(ds, ch) ==
    IF ubx_gate(ds)
    THEN {[ds |-> IF r.ds.ubx_pos # ds.ubx_pos
                  THEN r.ds ELSE [r.ds EXCEPT !.ubx_pos = 0],
           used |-> r.ds.ubx_pos # ds.ubx_pos,
           dec |-> r.dec, ubx_wr |-> r.ubx_wr] : r \in ubx_path(ds, ch)}
    ELSE {[ds |-> ds, used |-> FALSE, dec |-> <<>>, ubx_wr |-> {}]}

---------------------------------------------------------------------------
(* proc_byte, NMEA side *)

(* Variant: the NMEA side takes every byte. *)
nmea_gate_always(used) == TRUE

(* The NMEA side takes every byte the UBX side did not use. *)
nmea_gate(used) == ~used

(* line[i] = b: the decoder states the store can leave. *)
line_store(ds, i, b) ==
    IF i \in 0..(LINE_BUFFER_SIZE - 1)
    THEN {[ds EXCEPT !.line = Wr(@, i, b)]}
    ELSE Corrupt(ds, i, b)

(* if (line_pos == LINE_BUFFER_SIZE) line_pos = 0; *)
line_wrap(pos) == IF pos = LINE_BUFFER_SIZE THEN 0 ELSE pos

(* line_pos > 0 && line[line_pos - 1] == '\n': the values the test can     *)
(* take (a read outside the array can give either).                        *)
line_end(ds) ==
    IF ds.line_pos > 0
    THEN IF ds.line_pos - 1 \in 0..(LINE_BUFFER_SIZE - 1)
         THEN {Rd(ds.line, ds.line_pos - 1) = LINE_FEED}
         ELSE {v = LINE_FEED : v \in ReadAt(ds, ds.line_pos - 1)}
    ELSE {FALSE}

(* Each outcome: the decoder state, the nmea_decode_string calls made and  *)
(* the line indices written.                                               *)
nmea_side(ds, ch) ==
    UNION {
        LET d2 == [d1 EXCEPT !.line_pos = line_wrap(Inc32(@))]
        IN  UNION {
                IF e
                THEN {[ds |-> [d3 EXCEPT !.line_pos = 0],
                       nmea |-> <<CStr(d3.line)>>,
                       line_wr |-> {ds.line_pos, d2.line_pos}] :
                          d3 \in line_store(d2, d2.line_pos, 0)}
                ELSE {[ds |-> d2, nmea |-> <<>>, line_wr |-> {ds.line_pos}]}
                : e \in line_end(d2)}
        : d1 \in line_store(ds, ds.line_pos, ch)}

(* proc_byte(ch) on decoder state ds: the set of its outcomes (one, unless *)
(* a store falls outside its array).                                       *)
proc_byte(ds, ch) ==
    UNION {
        IF nmea_gate(u.used)
        THEN {[ds |-> n.ds, used |-> u.used, dec |-> u.dec, ubx_wr |-> u.ubx_wr,
               nmea |-> n.nmea, line_wr |-> n.line_wr] : n \in nmea_side(u.ds, ch)}
        ELSE {[ds |-> u.ds, used |-> u.used, dec |-> u.dec, ubx_wr |-> u.ubx_wr,
               nmea |-> <<>>, line_wr |-> {}]}
        : u \in ubx_side(ds, ch)}

---------------------------------------------------------------------------
(* The receive path: rx_task reads one byte and calls proc_byte. *)

(* The state of the configuration protocol after ublox_init created the    *)
(* semaphore: xSemaphoreCreateBinary returns it empty, wait_was_ack is a   *)
(* zero-initialised static.                                                *)
NoReq == [pc |-> "idle", cmd |-> <<>>, ticks |-> 0, ret |-> FALSE,
          result |-> 2, n |-> 0, fresh |-> FALSE, by |-> "none",
          raced |-> FALSE, clean |-> FALSE]

NoRx == [class |-> "none", id |-> "none", names |-> <<>>, handler |-> "none",
         cb |-> FALSE, rec |-> FALSE, gave |-> FALSE,
         sem_before |-> 0, sem_after |-> 0,
         ack_before |-> FALSE, ack_after |-> FALSE]

Senders == {1, 2}

NoSend == [pc |-> "idle", frame |-> <<>>, ind |-> 0]

(* The last request ublox_init transmitted: what it was, the local baud    *)
(* rate at that moment, and whether the rate had changed since the last    *)
(* reset_decoder_state.                                                    *)
NoTx == [kind |-> "none", baud |-> 0, dirty |-> FALSE, stage |-> 0]

NoApp == [pc |-> "idle", num |-> 0, calls |-> 0, ret |-> "none",
          stage |-> 1, i |-> 0, step |-> "top",
          baud_ok |-> FALSE, is_m10 |-> FALSE,
          n_rate |-> 0, n_prt |-> 0, n_valset |-> 0,
          acked |-> FALSE, started |-> 0, busy |-> FALSE,
          j |-> 0, sent5 |-> <<>>, bad5 |-> FALSE, path |-> "none",
          baud |-> 0, dirty |-> FALSE, tx |-> NoTx]

(* The statics as initialised at lines 66-70; no driver, no task. *)
LifeInit ==
    /\ should_terminate = TRUE
    /\ thd_rx_is_running = FALSE
    /\ m_uart_num = 0
    /\ m_init_ok = FALSE
    /\ uart_drv = {}
    /\ rx_tasks = <<>>
    /\ app = NoApp

(* Handlers that fill a telemetry record and call the subscriber if one    *)
(* is registered.                                                          *)
TelemetryHandlers ==
    {"ubx_decode_nav_sol", "ubx_decode_relposned", "ubx_decode_svin",
     "ubx_decode_rawx", "ubx_decode_nav_sat", "ubx_decode_cfg_gnss"}

(* Handlers with a one-shot dump flag m_print_next_*. *)
PrintHandlers == TelemetryHandlers \cup {"ubx_decode_mon_ver"}

(* No handler has run yet. *)
NoDsp == [h |-> "none", class |-> "none", id |-> "none", len |-> 0,
          reg |-> 0, cbs |-> <<>>, wire |-> -1, count |-> -1, wr |-> <<0, -1>>,
          diag |-> <<>>, read_end |-> 0, gave |-> FALSE, pn |-> FALSE,
          sets |-> 0, polls |-> 0, n |-> 0,
          due |-> [h \in PrintHandlers |-> FALSE], was_due |-> FALSE]

(* No codec call is in progress. *)
NoCod == [pc |-> "none", T |-> "U1", v |-> 0, c |-> 0, buf |-> <<>>,
          ind |-> 0, out |-> 0, ind_get |-> 0]

(* No configuration request has been made. *)
NoOps == [op |-> "none", arg |-> 0, n |-> 0, frames |-> <<>>, ret |-> 0,
          pc |-> "idle"]

(* No byte has been given to the split proc_byte. *)
NoRace == [pc |-> "idle", ch |-> 0, pos0 |-> 0, fed |-> 0, resets |-> 0,
           hit |-> FALSE, wr |-> 0]

(* No ublox_cfg_tp5 call has been made. *)
NoTp5 == [pc |-> "idle", cfg |-> <<>>, mask |-> 0, frames |-> <<>>,
          ret |-> 0]

(* The callbacks are initialised to 0 (lines 118-123), the dump flags to   *)
(* false (lines 56-62).                                                    *)
ExtInit ==
    /\ rx_cb = [h \in TelemetryHandlers |-> 0]
    /\ m_print_next = [h \in PrintHandlers |-> FALSE]
    /\ dsp = NoDsp
    /\ cod = NoCod
    /\ ops = NoOps
    /\ race = NoRace
    /\ tp5 = NoTp5

SysInit ==
    /\ ExtInit
    /\ LifeInit
    /\ enc_ubx = EmptyBuf
    /\ snd = [t \in Senders |-> NoSend]
    /\ wait_sem = 0
    /\ wait_was_ack = FALSE
    /\ req = NoReq
    /\ rx_log = NoRx
    /\ sem_log = [by |-> "none", takes |-> 0, multi |-> FALSE]

NoCall ==
    [ch |-> -1, pre |-> reset_decoder_state, used |-> FALSE,
     dec |-> 0, nmea |-> 0, ubx_wr |-> {}, line_wr |-> {}]

NoScn == [kind |-> "none", class |-> 0, id |-> 0, msg |-> <<>>,
          line |-> <<>>, at |-> 0, bit |-> 0, splits |-> {},
          call |-> <<"none">>]

Feed(ch) ==
    \E r \in proc_byte(m_decoder_state, ch) :
        /\ m_decoder_state' = r.ds
        /\ decoded' = decoded \o r.dec
        /\ nmea_lines' = nmea_lines \o r.nmea
        /\ rx_frame' = IF ~r.used \/ m_decoder_state.ubx_pos = 0 THEN rx_frame
                       ELSE IF m_decoder_state.ubx_pos = 1 THEN <<>>
                       ELSE Append(rx_frame, ch)
        /\ last' = [ch |-> ch, pre |-> m_decoder_state,
                    used |-> r.used, dec |-> Len(r.dec), nmea |-> Len(r.nmea),
                    ubx_wr |-> r.ubx_wr, line_wr |-> r.line_wr]
        /\ fed' = fed + 1

Init ==
    /\ m_decoder_state = reset_decoder_state
    /\ uart_rx = <<>>
    /\ uart_tx = <<>>
    /\ decoded = <<>>
    /\ nmea_lines = <<>>
    /\ rx_frame = <<>>
    /\ last = NoCall
    /\ scn = NoScn
    /\ fed = 0
    /\ SysInit

(* Free stream: the line carries any byte; the checksum bytes the decoder  *)
(* expects are among them so that complete frames occur.                   *)
StreamBytes == {0, 1, LINE_FEED, SYNC2, SYNC1}

RxStream ==
    /\ fed < MaxFeed
    /\ \E ch \in StreamBytes \cup {m_decoder_state.ubx_ck_a, m_decoder_state.ubx_ck_b} :
           Feed(ch)
    /\ UNCHANGED <<uart_rx, uart_tx, scn>>
    /\ UNCHANGED sys_vars

Next == RxStream

Spec == Init /\ [][Next]_vars

---------------------------------------------------------------------------
(* An oversize frame: the device (or line noise) declares a payload        *)
(* MaxOver bytes longer than the UBX buffer and keeps sending.  The bytes  *)
(* past the buffer include the low byte of ubx_pos plus one and the        *)
(* checksum bytes the decoder holds.                                       *)

OversizeLen == UBX_BUFFER_SIZE + MaxOver

OversizeBytes(n, ds) ==
    IF n = 0 THEN {SYNC1}
    ELSE IF n = 1 THEN {SYNC2}
    ELSE IF n \in {2, 3} THEN {0}
    ELSE IF n = 4 THEN {OversizeLen % 256}
    ELSE IF n = 5 THEN {OversizeLen \div 256}
    ELSE IF n < 6 + UBX_BUFFER_SIZE THEN {0}
    ELSE {0, 1, (Lane(ds.ubx_pos, 0) + 1) % 256, ds.ubx_ck_a, ds.ubx_ck_b}

RxOversize ==
    /\ fed < 6 + OversizeLen + 2
    /\ \E ch \in OversizeBytes(fed, m_decoder_state) : Feed(ch)
    /\ UNCHANGED <<uart_rx, uart_tx, scn>>
    /\ UNCHANGED sys_vars

SpecOverflow == Init /\ [][RxOversize]_vars

(* A long text line: the line carries letters and line-feeds until the     *)
(* first line has been delivered.                                          *)

LineBytes == {65, LINE_FEED}

RxLongLine ==
    /\ fed < LINE_BUFFER_SIZE + MaxExtra
    /\ nmea_lines = <<>>
    /\ \E ch \in LineBytes : Feed(ch)
    /\ UNCHANGED <<uart_rx, uart_tx, scn>>
    /\ UNCHANGED sys_vars

SpecLongLine == Init /\ [][RxLongLine]_vars

---------------------------------------------------------------------------
(* The frame encoder and the transport write *)

(* Variant: ck_b accumulates the byte instead of ck_a. *)
enc_ck_b_plain(ck, b) == <<(ck[1] + b) % 256, (ck[2] + b) % 256>>

(* ck_a += ubx[ind]; ck_b += ck_a; on uint8_t.  ck is <<ck_a, ck_b>>. *)
enc_ck(ck, b) ==
    LET a == (ck[1] + b) % 256
    IN  <<a, (ck[2] + a) % 256>>

(* for (i = 0; i < len; i++) { ubx[ind] = msg[i]; ... ind++; } *)
RECURSIVE enc_loop(_, _, _)
enc_loop(msg, i, e) ==
    IF i > Len(msg) THEN e
    ELSE enc_loop(msg, i + 1,
                  [ubx |-> Append(e.ubx, msg[i]), ck |-> enc_ck(e.ck, msg[i])])

enc_len_lo(len) == len % 256

enc_len_hi(len) == (len \div 256) % 256

(* The bytes ubx_encode_send(class, id, msg, Len(msg)) passes to           *)
(* ublox_send.                                                             *)
ubx_encode_send(class, id, msg) ==
    LET lo == enc_len_lo(Len(msg))
        hi == enc_len_hi(Len(msg))
        c4 == enc_ck(enc_ck(enc_ck(enc_ck(<<0, 0>>, class), id), lo), hi)
        e  == enc_loop(msg, 1, [ubx |-> <<SYNC1, SYNC2, class, id, lo, hi>>,
                                ck |-> c4])
    IN  e.ubx \o <<e.ck[1], e.ck[2]>>

(* uart_write_bytes(m_uart_num, data, len) *)
ublox_send(data) == uart_tx' = Append(uart_tx, data)

(* The field codec.  A buffer b is the byte array msg (msg[0] is b.msg[1]) *)
(* and the cursor ind.  Values of the 1- and 2-byte types and of I4 are    *)
(* integers; a 32-bit unsigned value or float bit pattern is the pair of   *)
(* its 16-bit halves, low half first, and a 64-bit pattern is its four     *)
(* halves.                                                                 *)

(* msg[ind++] = x: the conversion to uint8_t keeps x modulo 256. *)
put_byte(b, x) ==
    [msg |-> [b.msg EXCEPT ![b.ind + 1] = x % 256], ind |-> b.ind + 1]

(* data >> n on an integer (arithmetic on a negative value). *)
shr(data, n) == data \div Pow2(n)

(* (uint8_t)(w >> 8k) of a value w held as 16-bit halves. *)
WByte(w, k) == (w[(k \div 2) + 1] \div Pow2(8 * (k % 2))) % 256

(* The conversion of an unsigned value of the given width to the signed    *)
(* type of that width.                                                     *)
to_signed(x, bits) == IF x >= Pow2(bits - 1) THEN x - Pow2(bits) ELSE x

ubx_put_U1(b, data) == put_byte(b, data)

ubx_put_I1(b, data) == put_byte(b, data)

ubx_put_X1(b, data) == put_byte(b, data)

(* Variant: the high byte is written first. *)
ubx_put_U2_swapped(b, data) == put_byte(put_byte(b, shr(data, 8)), data)

(* msg[ind++] = data; msg[ind++] = data >> 8; *)
ubx_put_U2(b, data) == put_byte(put_byte(b, data), shr(data, 8))

ubx_put_I2(b, data) == put_byte(put_byte(b, data), shr(data, 8))

ubx_put_X2(b, data) == put_byte(put_byte(b, data), shr(data, 8))

(* The bytes 0 .. n-1 of the wide value w, in that order. *)
RECURSIVE put_wide(_, _, _, _)
put_wide(b, w, k, n) ==
    IF k = n THEN b ELSE put_wide(put_byte(b, WByte(w, k)), w, k + 1, n)

ubx_put_U4(b, data) == put_wide(b, data, 0, 4)

ubx_put_I4(b, data) ==
    put_byte(put_byte(put_byte(put_byte(b, data), shr(data, 8)),
                      shr(data, 16)), shr(data, 24))

ubx_put_X4(b, data) == put_wide(b, data, 0, 4)

(* union { float f; uint64_t i; } x; x.f = data: the low 32 bits of x.i    *)
(* are the float's pattern, the high 32 bits are whatever the stack held   *)
(* (upper); the four bytes written are taken from the low 32 bits.         *)
ubx_put_R4(b, data, upper) == put_wide(b, data \o upper, 0, 4)

ubx_put_R8(b, data) == put_wide(b, data, 0, 8)

(* msg[*ind + k] *)
get_byte(b, k) == b.msg[b.ind + k + 1]

(* ((uint16_t) msg[*ind + k + 1]) << 8 | msg[*ind + k] *)
get_half(b, k) == get_byte(b, k + 1) * 256 + get_byte(b, k)

ubx_get_U1(b) == [v |-> get_byte(b, 0), ind |-> b.ind + 1]

ubx_get_I1(b) == [v |-> to_signed(get_byte(b, 0), 8), ind |-> b.ind + 1]

ubx_get_X1(b) == [v |-> get_byte(b, 0), ind |-> b.ind + 1]

ubx_get_U2(b) == [v |-> get_half(b, 0), ind |-> b.ind + 2]

ubx_get_I2(b) == [v |-> to_signed(get_half(b, 0), 16), ind |-> b.ind + 2]

ubx_get_X2(b) == [v |-> get_half(b, 0), ind |-> b.ind + 2]

ubx_get_U4(b) == [v |-> <<get_half(b, 0), get_half(b, 2)>>, ind |-> b.ind + 4]

(* The 32-bit result converted to int32_t. *)
ubx_get_I4(b) ==
    [v |-> to_signed(get_half(b, 2), 16) * 65536 + get_half(b, 0),
     ind |-> b.ind + 4]

ubx_get_X4(b) == [v |-> <<get_half(b, 0), get_half(b, 2)>>, ind |-> b.ind + 4]

ubx_get_R4(b) == [v |-> <<get_half(b, 0), get_half(b, 2)>>, ind |-> b.ind + 4]

ubx_get_R8(b) ==
    [v |-> <<get_half(b, 0), get_half(b, 2), get_half(b, 4), get_half(b, 6)>>,
     ind |-> b.ind + 8]

(* The payload ublox_cfg_msg builds, in uint8_t buffer[8]. *)
cfg_msg_payload(msg_class, id, rate) ==
    LET b0 == [msg |-> [i \in 1..8 |-> 0], ind |-> 0]
        b8 == ubx_put_U1(ubx_put_U1(ubx_put_U1(ubx_put_U1(ubx_put_U1(
              ubx_put_U1(ubx_put_U1(ubx_put_U1(b0, msg_class), id), rate),
              rate), rate), rate), rate), rate)
    IN  SubSeq(b8.msg, 1, b8.ind)

---------------------------------------------------------------------------
(* Traffic scenarios on a link: one frame is encoded and sent, the line    *)
(* carries it to the receiver (as sent, with one bit inverted, after a     *)
(* copy with a wrong checksum byte, or inside a text line), and rx_task    *)
(* reads it byte by byte.                                                  *)

ClassVals == {0, 5}
IdVals == {0, 1}
PayloadBytes == {0, LINE_FEED, SYNC2, SYNC1}
Payloads == UNION {[1..n -> PayloadBytes] : n \in 0..MaxLen}
TextLines == {<<LINE_FEED>>, <<36, LINE_FEED>>, <<36, 65, LINE_FEED>>}

SentFrame == uart_tx[Len(uart_tx)]

(* ubx_encode_send called with a payload that fits its buffer. *)
Send ==
    /\ scn.kind = "none"
    /\ \E class \in ClassVals, id \in IdVals, msg \in Payloads :
        /\ Len(msg) + 8 <= UBX_BUFFER_SIZE
        /\ ublox_send(ubx_encode_send(class, id, msg))
        /\ scn' = [NoScn EXCEPT !.kind = "sent", !.class = class, !.id = id,
                                !.msg = msg, !.call = <<"ubx_encode_send">>]
    /\ UNCHANGED <<m_decoder_state, uart_rx, decoded, nmea_lines, rx_frame,
                   last, fed, sys_vars>>

(* ublox_cfg_msg up to the transmission of its frame. *)
CfgMsg ==
    /\ scn.kind = "none"
    /\ \E msg_class \in {1}, id \in {6}, rate \in {0, 1} :
        LET msg == cfg_msg_payload(msg_class, id, rate)
        IN  /\ ublox_send(ubx_encode_send(UBX_CLASS_CFG, UBX_CFG_MSG, msg))
            /\ scn' = [NoScn EXCEPT !.kind = "sent", !.class = UBX_CLASS_CFG,
                                    !.id = UBX_CFG_MSG, !.msg = msg,
                                    !.call = <<"ublox_cfg_msg", msg_class, id, rate>>]
    /\ UNCHANGED <<m_decoder_state, uart_rx, decoded, nmea_lines, rx_frame,
                   last, fed, sys_vars>>

WireKeep == UNCHANGED <<m_decoder_state, uart_tx, decoded, nmea_lines,
                        rx_frame, last, fed, sys_vars>>

WireClean ==
    /\ scn.kind = "sent"
    /\ uart_rx' = SentFrame
    /\ scn' = [scn EXCEPT !.kind = "clean"]
    /\ WireKeep

(* One bit of one byte after the sync pair is inverted. *)
WireFlip ==
    /\ scn.kind = "sent"
    /\ \E i \in 3..Len(SentFrame), k \in 0..7 :
        /\ uart_rx' = [SentFrame EXCEPT ![i] = FlipBit(@, k)]
        /\ scn' = [scn EXCEPT !.kind = "flip", !.at = i, !.bit = k]
    /\ WireKeep

(* A copy whose ck_a or ck_b byte is wrong, then the frame itself. *)
WireResync ==
    /\ scn.kind = "sent"
    /\ \E i \in {Len(SentFrame) - 1, Len(SentFrame)} :
       \E b \in {1, LINE_FEED, SYNC1, (SentFrame[i] + 1) % 256} :
        /\ b # SentFrame[i]
        /\ uart_rx' = [SentFrame EXCEPT ![i] = b] \o SentFrame
        /\ scn' = [scn EXCEPT !.kind = "resync", !.at = i, !.bit = b]
    /\ WireKeep

(* line with frame inserted at each split point of S (0 = before the       *)
(* first byte, Len(line) = after the line-feed).                           *)
RECURSIVE Interleave(_, _, _, _)
Interleave(line, frame, S, k) ==
    (IF k \in S THEN frame ELSE <<>>)
    \o (IF k = Len(line) THEN <<>>
        ELSE <<line[k + 1]>> \o Interleave(line, frame, S, k + 1))

WireInterleave ==
    /\ scn.kind = "sent"
    /\ \E line \in TextLines, S \in SUBSET (0..3) :
        /\ S # {}
        /\ S \subseteq 0..Len(line)
        /\ uart_rx' = Interleave(line, SentFrame, S, 0)
        /\ scn' = [scn EXCEPT !.kind = "interleave", !.line = line,
                              !.splits = S]
    /\ WireKeep

(* rx_task: uart_read_bytes returned one byte. *)
Rx ==
    /\ uart_rx # <<>>
    /\ Feed(Head(uart_rx))
    /\ uart_rx' = Tail(uart_rx)
    /\ UNCHANGED <<uart_tx, scn>>
    /\ UNCHANGED sys_vars

NextLink ==
    \/ Send
    \/ CfgMsg
    \/ WireClean
    \/ WireFlip
    \/ WireResync
    \/ WireInterleave
    \/ Rx

SpecLink == Init /\ [][NextLink]_vars

---------------------------------------------------------------------------
(* Properties *)

(* The UBX checksum of a byte sequence in closed form: ck_a is the sum of  *)
(* the bytes, ck_b the sum of the bytes weighted by their distance from    *)
(* the end, both mod 256.                                                  *)
RECURSIVE WSum(_, _, _, _)
WSum(s, lo, hi, w) ==
    IF lo > hi THEN 0
    ELSE IF lo = hi
         THEN ((IF w THEN Len(s) - lo + 1 ELSE 1) % 256) * s[lo]
         ELSE LET mid == (lo + hi) \div 2
              IN  (WSum(s, lo, mid, w) + WSum(s, mid + 1, hi, w)) % 65536

CkA(s) == WSum(s, 1, Len(s), FALSE) % 256

CkB(s) == WSum(s, 1, Len(s), TRUE) % 256

(* The frame of the scenario as ubx_decode should see it. *)
SentCall == [class |-> scn.class, id |-> scn.id, len |-> Len(scn.msg),
             msg |-> scn.msg]

(* The most recent proc_byte call stored its byte at the line position. *)
Appended ==
    /\ last.pre.line_pos \in last.line_wr
    /\ Rd(m_decoder_state.line, last.pre.line_pos) = last.ch

(* C1: a frame produced by ubx_encode_send and fed byte by byte to         *)
(* proc_byte from a reset decoder makes exactly one ubx_decode call, with  *)
(* the class, id, length and payload that were encoded, and only once the  *)
(* last byte is in; no line reaches the NMEA collaborator, and the decoder *)
(* ends with ubx_pos = 0 and line_pos = 0.                                 *)
C1_RoundTrip ==
    scn.kind = "clean" =>
        /\ nmea_lines = <<>>
        /\ (uart_rx # <<>> => decoded = <<>>)
        /\ (uart_rx = <<>> =>
                /\ decoded = <<SentCall>>
                /\ m_decoder_state.ubx_pos = 0
                /\ m_decoder_state.line_pos = 0)

C1_Witness ==
    /\ scn.kind = "clean"
    /\ uart_rx = <<>>
    /\ scn.msg = <<SYNC1, SYNC2>>
    /\ Len(decoded) = 1

(* C2: ubx_encode_send hands the transport len+8 bytes: 0xB5, 0x62, class, *)
(* id, length low, length high, the payload in order, ck_a, ck_b, the      *)
(* checksum being taken over class..payload; ublox_cfg_msg(0x01, 0x06, 1)  *)
(* sends B5 62 06 01 08 00 01 06 01 01 01 01 01 01 and the checksum of     *)
(* 06 01 08 00 01 06 01 01 01 01 01 01.                                    *)
C2_EncodedFrame ==
    scn.kind # "none" =>
        LET f == SentFrame
            len == Len(scn.msg)
            body == <<scn.class, scn.id, len % 256, len \div 256>> \o scn.msg
            ex == <<6, 1, 8, 0, 1, 6, 1, 1, 1, 1, 1, 1>>
        IN  /\ Len(uart_tx) = 1
            /\ Len(f) = len + 8
            /\ f = <<181, 98>> \o body \o <<CkA(body), CkB(body)>>
            /\ (scn.call = <<"ublox_cfg_msg", 1, 6, 1>> =>
                    /\ Len(f) = 16
                    /\ f = <<181, 98>> \o ex \o <<CkA(ex), CkB(ex)>>)

C2_Witness ==
    /\ scn.call = <<"ublox_cfg_msg", 1, 6, 1>>
    /\ Len(uart_tx) = 1
    /\ Len(SentFrame) = 16

(* C3: ubx_decode is called only when the last two bytes consumed equal    *)
(* the checksum of the class, id, length bytes and ubx_len payload bytes   *)
(* received since the sync pair; the call carries those bytes, and the     *)
(* parser is back at ubx_pos = 0.                                          *)
C3_DispatchChecked ==
    last.dec = 1 =>
        LET f == rx_frame
            n == Len(f) - 6
            call == decoded[Len(decoded)]
        IN  /\ n >= 0
            /\ call.class = f[1]
            /\ call.id = f[2]
            /\ call.len = f[3] + 256 * f[4]
            /\ call.len = n
            /\ call.msg = SubSeq(f, 5, 4 + n)
            /\ f[5 + n] = CkA(SubSeq(f, 1, 4 + n))
            /\ f[6 + n] = CkB(SubSeq(f, 1, 4 + n))
            /\ m_decoder_state.ubx_pos = 0

(* C4: after a frame with a wrong checksum byte followed by a valid frame  *)
(* exactly the valid frame is dispatched; the bytes of the corrupted frame *)
(* cause no dispatch and no NMEA line delivery.                            *)
C4_Resync ==
    scn.kind = "resync" =>
        /\ nmea_lines = <<>>
        /\ (Len(uart_rx) >= Len(SentFrame) => decoded = <<>>)
        /\ (uart_rx = <<>> => decoded = <<SentCall>>)

(* C5: a byte that differs from the accumulated checksum at the ck_a or    *)
(* ck_b position aborts the frame (ubx_pos = 0, no dispatch) and is        *)
(* discarded: not stored in the line buffer, no NMEA line delivered.       *)
AtCkA(ds) == ds.line_pos = 0 /\ ds.ubx_pos >= 6 /\ ds.ubx_pos - 6 = ds.ubx_len

AtCkB(ds) == ds.line_pos = 0 /\ ds.ubx_pos >= 6 /\ ds.ubx_pos - 6 = ds.ubx_len + 1

C5_MismatchDiscarded ==
    (/\ last.ch # -1
     /\ \/ AtCkA(last.pre) /\ last.ch # last.pre.ubx_ck_a
        \/ AtCkB(last.pre) /\ last.ch # last.pre.ubx_ck_b)
    => /\ m_decoder_state.ubx_pos = 0
       /\ last.dec = 0
       /\ last.line_wr = {}
       /\ last.nmea = 0

(* C6 as stated: inverting any one bit of any byte after the sync pair of  *)
(* an encoded frame leaves no ubx_decode call when the altered bytes are   *)
(* fed from a reset decoder.                                               *)
C6_AnyFlipRejected == scn.kind = "flip" => decoded = <<>>

(* The flip clears a bit of a length byte: the declared length shrinks. *)
ClearsLengthBit == scn.at \in {5, 6} /\ Bit(SentFrame[scn.at], scn.bit) = 1

(* C6 amended: inverting one bit of the class, id, a payload byte or a     *)
(* checksum byte, or setting a bit of a length byte, leaves no ubx_decode  *)
(* call; only a flip that clears a length bit can be dispatched.           *)
C6_FlipRejected ==
    (scn.kind = "flip" /\ ~ClearsLengthBit) => decoded = <<>>

C6_Witness ==
    /\ scn.kind = "flip"
    /\ scn.at = 7
    /\ scn.bit = 7
    /\ Len(scn.msg) = 2
    /\ uart_rx = <<>>
    /\ decoded = <<>>

C9_LineFeedDelivers ==
    (last.ch = LINE_FEED /\ last.line_wr # {}) =>
        /\ last.nmea = 1
        /\ m_decoder_state.line_pos = 0
        /\ nmea_lines[Len(nmea_lines)] =
               CStr(Wr(Wr(last.pre.line, last.pre.line_pos, LINE_FEED),
                       last.pre.line_pos + 1, 0))

(* C10: after every proc_byte call line_pos is in 0..LINE_BUFFER_SIZE-1,   *)
(* every store into the line buffer (the closing NUL included) is at an    *)
(* index in 0..LINE_BUFFER_SIZE-1, and a store that brings the position to *)
(* LINE_BUFFER_SIZE wraps it to 0.                                         *)
C10_LinePosInRange ==
    /\ m_decoder_state.line_pos \in 0..(LINE_BUFFER_SIZE - 1)
    /\ last.line_wr \subseteq 0..(LINE_BUFFER_SIZE - 1)
    /\ (LINE_BUFFER_SIZE - 1 \in last.line_wr => m_decoder_state.line_pos = 0)

(* C11: after every proc_byte call ubx_pos > 0 and line_pos > 0 never hold *)
(* together, and a byte is stored in the line buffer only in a call that   *)
(* did not claim the byte for the UBX parser and leaves ubx_pos = 0.       *)
C11_Exclusive ==
    /\ ~(m_decoder_state.ubx_pos > 0 /\ m_decoder_state.line_pos > 0)
    /\ (last.line_wr # {} => ~last.used /\ m_decoder_state.ubx_pos = 0)

---------------------------------------------------------------------------
(* The configuration protocol: ubx_decode on the receive task,             *)
(* wait_ack_nak on the thread that sent the request.                       *)

UBX_CFG_RATE == 8
UBX_CFG_PRT == 0

MaxReq == 3
WaitTicks == 2

Classes == {"UBX_CLASS_NAV", "UBX_CLASS_ACK", "UBX_CLASS_RXM",
            "UBX_CLASS_CFG", "UBX_CLASS_MON", "OTHER"}

(* The ids a frame of a class can carry: those the class's switch names    *)
(* and any other value.                                                    *)
IdsOf(class) ==
    IF class = "UBX_CLASS_NAV"
    THEN {"UBX_NAV_SOL", "UBX_NAV_RELPOSNED", "UBX_NAV_SVIN", "UBX_NAV_SAT",
          "OTHER"}
    ELSE IF class = "UBX_CLASS_ACK" THEN {"UBX_ACK_ACK", "UBX_ACK_NAK", "OTHER"}
    ELSE IF class = "UBX_CLASS_RXM" THEN {"UBX_RXM_RAWX", "OTHER"}
    ELSE IF class = "UBX_CLASS_CFG" THEN {"UBX_CFG_GNSS", "OTHER"}
    ELSE IF class = "UBX_CLASS_MON" THEN {"UBX_MON_VER", "OTHER"}
    ELSE {"OTHER"}

(* The switch of ubx_decode: the handler it calls. *)
ubx_decode(class, id) ==
    IF class = "UBX_CLASS_NAV" THEN
        IF id = "UBX_NAV_SOL" THEN "ubx_decode_nav_sol"
        ELSE IF id = "UBX_NAV_RELPOSNED" THEN "ubx_decode_relposned"
        ELSE IF id = "UBX_NAV_SVIN" THEN "ubx_decode_svin"
        ELSE IF id = "UBX_NAV_SAT" THEN "ubx_decode_nav_sat"
        ELSE "none"
    ELSE IF class = "UBX_CLASS_ACK" THEN
        IF id = "UBX_ACK_ACK" THEN "ubx_decode_ack"
        ELSE IF id = "UBX_ACK_NAK" THEN "ubx_decode_nak"
        ELSE "none"
    ELSE IF class = "UBX_CLASS_RXM" THEN
        IF id = "UBX_RXM_RAWX" THEN "ubx_decode_rawx" ELSE "none"
    ELSE IF class = "UBX_CLASS_CFG" THEN
        IF id = "UBX_CFG_GNSS" THEN "ubx_decode_cfg_gnss" ELSE "none"
    ELSE IF class = "UBX_CLASS_MON" THEN
        IF id = "UBX_MON_VER" THEN "ubx_decode_mon_ver" ELSE "none"
    ELSE "none"

(* Handlers that call xSemaphoreGive(wait_sem). *)
GivingHandlers == {"ubx_decode_ack", "ubx_decode_nak"}

(* Variant: both handlers record an ACK. *)
ack_outcome_true(h) == TRUE

(* wait_was_ack = true in ubx_decode_ack, false in ubx_decode_nak. *)
ack_outcome(h) == h = "ubx_decode_ack"

(* Variant: a counting semaphore. *)
give_counting(sem) == sem + 1

(* xSemaphoreGive on a binary semaphore: a give on a full one fails. *)
xSemaphoreGive(sem) == IF sem = 0 THEN 1 ELSE sem

(* The (class, id) an ACK or NAK payload names. *)
AckNames == {<<UBX_CLASS_CFG, UBX_CFG_RATE>>, <<UBX_CLASS_CFG, UBX_CFG_PRT>>}

(* rx_task has received a complete valid frame and proc_byte calls         *)
(* ubx_decode on it.                                                       *)
RxDecode ==
    /\ \E class \in Classes : \E id \in IdsOf(class) :
       \E sub \in BOOLEAN :
       \E names \in (IF class = "UBX_CLASS_ACK" THEN AckNames ELSE {<<>>}) :
        LET h == ubx_decode(class, id)
            g == h \in GivingHandlers
            kind == IF h = "ubx_decode_ack" THEN "ack" ELSE "nak"
        IN  /\ (h \notin TelemetryHandlers => sub = FALSE)
            /\ wait_was_ack' = IF g THEN ack_outcome(h) ELSE wait_was_ack
            /\ wait_sem' = IF g THEN xSemaphoreGive(wait_sem) ELSE wait_sem
            /\ rx_log' = [class |-> class, id |-> id, names |-> names,
                          handler |-> h,
                          cb |-> h \in TelemetryHandlers /\ sub,
                          rec |-> h \in TelemetryHandlers,
                          gave |-> g,
                          sem_before |-> wait_sem, sem_after |-> wait_sem',
                          ack_before |-> wait_was_ack,
                          ack_after |-> wait_was_ack']
            /\ sem_log' = IF ~g THEN sem_log
                          ELSE IF wait_sem = 0
                          THEN [by |-> kind, takes |-> 0, multi |-> FALSE]
                          ELSE [sem_log EXCEPT !.takes = 0, !.multi = TRUE]
            /\ req' = IF g /\ req.pc = "waiting" THEN [req EXCEPT !.fresh = TRUE]
                      ELSE IF g /\ req.pc = "taken"
                      THEN [req EXCEPT !.fresh = TRUE, !.raced = TRUE]
                      ELSE req
    /\ UNCHANGED <<m_decoder_state, uart_rx, uart_tx, decoded, nmea_lines,
                   rx_frame, last, scn, fed, enc_ubx, snd, life_vars,
                   ext_vars>>

(* The payload ublox_cfg_rate builds, in uint8_t buffer[6]. *)
cfg_rate_payload(meas_rate_ms, nav_rate_ms, time_ref) ==
    LET b0 == [msg |-> [i \in 1..6 |-> 0], ind |-> 0]
        b6 == ubx_put_U2(ubx_put_U2(ubx_put_U2(b0, meas_rate_ms),
                                    nav_rate_ms), time_ref)
    IN  SubSeq(b6.msg, 1, b6.ind)

(* ublox_cfg_rate up to the call of wait_ack_nak: the frame is encoded and *)
(* handed to the transport.                                                *)
CfgRateSend ==
    /\ req.pc \in {"idle", "done"}
    /\ req.n < MaxReq
    /\ ublox_send(ubx_encode_send(UBX_CLASS_CFG, UBX_CFG_RATE,
                                  cfg_rate_payload(200, 1, 0)))
    /\ req' = [NoReq EXCEPT !.pc = "waiting",
                            !.cmd = <<UBX_CLASS_CFG, UBX_CFG_RATE>>,
                            !.n = req.n + 1,
                            !.clean = (wait_sem = 0)]
    /\ UNCHANGED <<m_decoder_state, uart_rx, decoded, nmea_lines, rx_frame,
                   last, scn, fed, wait_sem, wait_was_ack, rx_log, sem_log,
                   enc_ubx, snd, life_vars,
                   ext_vars>>

(* xSemaphoreTake succeeds: the semaphore holds a signal. *)
SemTake ==
    /\ req.pc = "waiting"
    /\ wait_sem > 0
    /\ wait_sem' = wait_sem - 1
    /\ req' = [req EXCEPT !.pc = "taken", !.ret = TRUE, !.by = sem_log.by]
    /\ sem_log' = [sem_log EXCEPT !.takes = @ + 1]
    /\ UNCHANGED <<m_decoder_state, uart_rx, uart_tx, decoded, nmea_lines,
                   rx_frame, last, scn, fed, wait_was_ack, rx_log, enc_ubx,
                   snd, life_vars,
                   ext_vars>>

(* The caller is blocked in xSemaphoreTake while a tick passes. *)
Tick ==
    /\ req.pc = "waiting"
    /\ wait_sem = 0
    /\ req.ticks < WaitTicks
    /\ req' = [req EXCEPT !.ticks = @ + 1]
    /\ UNCHANGED <<m_decoder_state, uart_rx, uart_tx, decoded, nmea_lines,
                   rx_frame, last, scn, fed, wait_sem, wait_was_ack, rx_log,
                   sem_log, enc_ubx, snd, life_vars,
                   ext_vars>>

(* The three-way result of wait_ack_nak. *)
wait_result(ret, was_ack) ==
    IF ret /\ was_ack THEN 0
    ELSE IF ret /\ ~was_ack THEN 1
    ELSE -1

(* xSemaphoreTake gives up after the wait bound; wait_ack_nak returns. *)
SemTimeout ==
    /\ req.pc = "waiting"
    /\ wait_sem = 0
    /\ req.ticks = WaitTicks
    /\ req' = [req EXCEPT !.pc = "done", !.ret = FALSE,
                          !.result = wait_result(FALSE, wait_was_ack)]
    /\ UNCHANGED <<m_decoder_state, uart_rx, uart_tx, decoded, nmea_lines,
                   rx_frame, last, scn, fed, wait_sem, wait_was_ack, rx_log,
                   sem_log, enc_ubx, snd, life_vars,
                   ext_vars>>

(* After a successful take: wait_was_ack is read and wait_ack_nak returns. *)
WaitReturn ==
    /\ req.pc = "taken"
    /\ req' = [req EXCEPT !.pc = "done",
                          !.result = wait_result(req.ret, wait_was_ack)]
    /\ UNCHANGED <<m_decoder_state, uart_rx, uart_tx, decoded, nmea_lines,
                   rx_frame, last, scn, fed, wait_sem, wait_was_ack, rx_log,
                   sem_log, enc_ubx, snd, life_vars,
                   ext_vars>>

NextCfg ==
    \/ RxDecode
    \/ CfgRateSend
    \/ SemTake
    \/ Tick
    \/ SemTimeout
    \/ WaitReturn

SpecCfg == Init /\ [][NextCfg]_vars

(* C12: a request after whose transmission no ACK or NAK was decoded       *)
(* returns -1, and only when the whole wait bound has passed.              *)
C12_TimeoutAfterBound ==
    (req.pc = "done" /\ ~req.fresh) =>
        (req.result = -1 /\ req.ticks = WaitTicks)

(* C13: a request that found the semaphore empty when it was sent returns  *)
(* 0 exactly when the signal it took was given by an ACK frame, 1 exactly  *)
(* when it was given by a NAK frame, and -1 exactly when it took no        *)
(* signal.                                                                 *)
C13_OutcomeMatchesRelease ==
    (req.pc = "done" /\ req.clean) =>
        /\ (req.result = 0 <=> req.by = "ack")
        /\ (req.result = 1 <=> req.by = "nak")
        /\ (req.result = -1 <=> ~req.ret)

(* C14: decoding ACK-ACK or ACK-NAK calls no subscriber and fills no       *)
(* record; it leaves wait_was_ack TRUE respectively FALSE and the          *)
(* semaphore full, whatever (class, id) its payload names; decoding any    *)
(* other frame leaves the semaphore and wait_was_ack as they were.         *)
C14_AckNakOnlyRelease ==
    /\ (rx_log.class = "UBX_CLASS_ACK"
            /\ rx_log.id \in {"UBX_ACK_ACK", "UBX_ACK_NAK"}) =>
           /\ ~rx_log.cb
           /\ ~rx_log.rec
           /\ rx_log.gave
           /\ rx_log.sem_after = 1
           /\ rx_log.ack_after = (rx_log.id = "UBX_ACK_ACK")
    /\ ~(rx_log.class = "UBX_CLASS_ACK"
            /\ rx_log.id \in {"UBX_ACK_ACK", "UBX_ACK_NAK"}) =>
           /\ ~rx_log.gave
           /\ rx_log.sem_after = rx_log.sem_before
           /\ rx_log.ack_after = rx_log.ack_before

(* An ACK that names CFG-PRT released the waiter of a CFG-RATE request     *)
(* with outcome 0.                                                         *)
C14_Witness ==
    /\ req.pc = "done"
    /\ req.result = 0
    /\ req.fresh
    /\ req.ticks > 0
    /\ rx_log.id = "UBX_ACK_ACK"
    /\ rx_log.names # req.cmd

(* C15: the semaphore holds at most one signal: between two decoded        *)
(* ACK/NAK frames at most one take succeeds, and a wait that takes no      *)
(* signal ends only when the wait bound has passed.                        *)
C15_BinarySemaphore ==
    /\ wait_sem \in {0, 1}
    /\ sem_log.takes <= 1
    /\ (req.pc = "done" /\ ~req.ret) => req.ticks = WaitTicks

(* Several ACK/NAK frames were decoded with no caller waiting, one request *)
(* took the signal, and the request after it ran into the timeout.         *)
C15_Witness ==
    /\ sem_log.multi
    /\ sem_log.takes = 1
    /\ req.n >= 2
    /\ req.pc = "done"
    /\ req.result = -1
    /\ ~req.fresh

---------------------------------------------------------------------------
(* Concurrent senders: ubx_encode_send builds every frame in one static    *)
(* buffer and takes no lock.  Each thread has its own ind, ck_a and ck_b;  *)
(* the bytes it stores are those of the frame of its arguments.            *)

(* The frame-sending calls the threads make. *)
SenderCalls(t) ==
    IF t = 1
    THEN {ubx_encode_send(class, id, <<>>) : class \in {1, 10}, id \in {7}}
    ELSE {ubx_encode_send(UBX_CLASS_CFG, UBX_CFG_RATE,
                          cfg_rate_payload(200, 1, 0))}

enc_keep == UNCHANGED <<m_decoder_state, uart_rx, decoded, nmea_lines,
                        rx_frame, last, scn, fed, wait_sem, wait_was_ack,
                        req, rx_log, sem_log, life_vars,
                        ext_vars>>

(* Thread t enters ubx_encode_send: ublox_poll for thread 1,               *)
(* ublox_cfg_rate for thread 2.                                            *)
EncCall(t) ==
    /\ snd[t].pc = "idle"
    /\ \E f \in SenderCalls(t) :
           snd' = [snd EXCEPT ![t] = [pc |-> "enc", frame |-> f, ind |-> 0]]
    /\ UNCHANGED <<enc_ubx, uart_tx>>
    /\ enc_keep

(* ubx[ind++] = the next byte of the frame. *)
EncStore(t) ==
    /\ snd[t].pc = "enc"
    /\ snd[t].ind < Len(snd[t].frame)
    /\ enc_ubx' = Wr(enc_ubx, snd[t].ind, snd[t].frame[snd[t].ind + 1])
    /\ snd' = [snd EXCEPT ![t].ind = @ + 1]
    /\ UNCHANGED uart_tx
    /\ enc_keep

(* ublox_send(ubx, ind): the transport gets the first ind bytes of the     *)
(* static buffer.                                                          *)
EncSend(t) ==
    /\ snd[t].pc = "enc"
    /\ snd[t].ind = Len(snd[t].frame)
    /\ ublox_send(Cells(enc_ubx, snd[t].ind))
    /\ snd' = [snd EXCEPT ![t].pc = "done"]
    /\ UNCHANGED enc_ubx
    /\ enc_keep

NextEnc == \E t \in Senders : EncCall(t) \/ EncStore(t) \/ EncSend(t)

SpecEnc == Init /\ [][NextEnc]_vars

(* C16: every byte sequence handed to the transport is the complete frame  *)
(* of one of the callers.                                                  *)
C16_FramesWhole ==
    \A k \in 1..Len(uart_tx) :
        \E t \in Senders : snd[t].pc = "done" /\ uart_tx[k] = snd[t].frame

---------------------------------------------------------------------------
(* Session lifecycle: ublox_init, ublox_stop and the receive tasks.  A     *)
(* receive task is at "start", "test" (the while condition), "drv" (the    *)
(* driver check), "read", "exit" (out of the loop) or "marked" (it has     *)
(* written thd_rx_is_running = false and is about to delete itself).       *)

MaxCalls == 2
MaxRxBytes == 1

Uarts == {0, 1}

(* The outcomes of a configuration request: Ack, Nak, Timeout. *)
Outcomes == {0, 1, -1}

ActiveTasks == {k \in DOMAIN rx_tasks : rx_tasks[k] # "marked"}

RemoveAt(seq, k) == SubSeq(seq, 1, k - 1) \o SubSeq(seq, k + 1, Len(seq))

life_rest == <<uart_rx, uart_tx, scn, wait_sem, wait_was_ack, req, rx_log,
               sem_log, enc_ubx, snd, ext_vars>>

dec_rest == <<decoded, nmea_lines, rx_frame, last, fed>>

(* The calling thread after a return: the loop counters of the call are    *)
(* gone; what the call did (the requests of the full configuration, the    *)
(* way it returned, the baud rate it left) stays visible.                  *)
AppReturn(a, r) ==
    [NoApp EXCEPT !.ret = r, !.num = a.num, !.calls = a.calls,
                  !.started = a.started, !.busy = a.busy,
                  !.stage = a.stage, !.baud_ok = a.baud_ok,
                  !.is_m10 = a.is_m10, !.acked = a.acked,
                  !.sent5 = a.sent5, !.bad5 = a.bad5, !.path = a.path,
                  !.baud = a.baud]

(* Variant: the wait-for-stop loop does not wait. *)
stop_wait_skip(running) == TRUE

(* while (thd_rx_is_running) { vTaskDelay(1); } is left when the flag is   *)
(* false.                                                                  *)
stop_wait_done(running) == ~running

(* Variant: the loop of rx_task does not look at should_terminate. *)
loop_continue_always(terminate) == TRUE

(* while (!should_terminate) *)
loop_continue(terminate) == ~terminate

(* Variant: five outer iterations. *)
hs_more_five(i) == i < 5

(* for (int i = 0;i < 4;i++) *)
hs_more(i) == i < 4

(* The test the handshake applies to a probe's result: != -1. *)
probe_ok(r) == r # -1

BAUDRATE_UBX_DEFAULT == 9600
BAUDRATE_UBX_DEFAULT_NEW == 38400
BAUDRATE == 115200

(* The factory default rate a stage switches the local transport to. *)
stage_default(stage) ==
    IF stage = 1 THEN BAUDRATE_UBX_DEFAULT ELSE BAUDRATE_UBX_DEFAULT_NEW

(* Variant: the local transport is left at the rate it has. *)
switch_back_skipped(baud) == baud

(* uart_config.baud_rate = BAUDRATE; uart_param_config(...) after the two  *)
(* baud-setting requests.                                                  *)
switch_back(baud) == BAUDRATE

(* Variant: no reset_decoder_state after the switch back to BAUDRATE. *)
reset_skipped(dirty) == dirty

(* reset_decoder_state() after a baud change: the decoder state is fresh   *)
(* for the new rate.                                                       *)
reset_mark(dirty) == FALSE

(* A request of ublox_init goes out: what the transport was set to. *)
HsTx(a, kind) ==
    [a EXCEPT !.tx = [kind |-> kind, baud |-> a.baud, dirty |-> a.dirty,
                      stage |-> a.stage]]

(* Variant: the full configuration goes on only after an Ack. *)
step5_continue_on_ack(r) == r = 0

(* The result of a request of the full configuration is not looked at:     *)
(* the next statement runs whatever it was.                                *)
step5_continue(r) == TRUE

Req5(op, msg, rate) == [op |-> op, msg |-> msg, rate |-> rate]

(* The requests of the full configuration of a legacy device, in the       *)
(* order of the calls.                                                     *)
Step5Legacy ==
    << Req5("ublox_cfg_prt_uart", "", 0),
       Req5("ublox_cfg_rate", "", 0),
       Req5("ublox_cfg_nav5", "", 0),
       Req5("ublox_cfg_msg", "NAV_SOL", 0),
       Req5("ublox_cfg_msg", "NAV_RELPOSNED", 0),
       Req5("ublox_cfg_msg", "NAV_SVIN", 0),
       Req5("ublox_cfg_msg", "NAV_SAT", 0),
       Req5("ublox_cfg_msg", "NMEA_GGA", 1),
       Req5("ublox_cfg_msg", "NMEA_GSV", 1),
       Req5("ublox_cfg_msg", "NMEA_RMC", 1),
       Req5("ublox_cfg_msg", "NMEA_GLL", 0),
       Req5("ublox_cfg_msg", "NMEA_GSA", 0),
       Req5("ublox_cfg_msg", "NMEA_VTG", 0),
       Req5("ublox_cfg_msg", "NMEA_GRS", 0),
       Req5("ublox_cfg_msg", "NMEA_GST", 0),
       Req5("ublox_cfg_msg", "NMEA_ZDA", 0),
       Req5("ublox_cfg_msg", "NMEA_GBS", 0),
       Req5("ublox_cfg_msg", "NMEA_DTM", 0),
       Req5("ublox_cfg_nmea", "", 0),
       Req5("ublox_cfg_gnss", "", 0) >>

(* The full configuration of a newer device: one key-value request. *)
Step5M10 == << Req5("ublox_cfg_valset", "", 0) >>

Step5Of(is_m10) == IF is_m10 THEN Step5M10 ELSE Step5Legacy

(* ublox_init, up to the wait for the previous receive task.  The          *)
(* semaphore is created on the first call.                                 *)
InitCall ==
    /\ app.pc = "idle"
    /\ app.calls < MaxCalls
    /\ \E num \in Uarts :
           app' = [NoApp EXCEPT !.pc = "i_wait", !.num = num,
                                !.calls = app.calls + 1,
                                !.started = app.started,
                                !.busy = thd_rx_is_running]
    /\ m_init_ok' = FALSE
    /\ should_terminate' = TRUE
    /\ UNCHANGED <<thd_rx_is_running, m_uart_num, uart_drv, rx_tasks,
                   m_decoder_state, dec_rest, life_rest>>

InitWaitDone ==
    /\ app.pc = "i_wait"
    /\ stop_wait_done(thd_rx_is_running)
    /\ app' = [app EXCEPT !.pc = "i_conf"]
    /\ UNCHANGED <<should_terminate, thd_rx_is_running, m_uart_num, m_init_ok,
                   uart_drv, rx_tasks, m_decoder_state, dec_rest, life_rest>>

(* m_uart_num = num_uart; driver delete if installed, driver install,      *)
(* parameter and pin setup.                                                *)
InitConf ==
    /\ app.pc = "i_conf"
    /\ m_uart_num' = app.num
    /\ uart_drv' = uart_drv \cup {app.num}
    /\ app' = [app EXCEPT !.pc = "i_start", !.baud = BAUDRATE]
    /\ UNCHANGED <<should_terminate, thd_rx_is_running, m_init_ok, rx_tasks,
                   m_decoder_state, dec_rest, life_rest>>

(* should_terminate = false; thd_rx_is_running = true; xTaskCreate. *)
InitStart ==
    /\ app.pc = "i_start"
    /\ should_terminate' = FALSE
    /\ thd_rx_is_running' = TRUE
    /\ rx_tasks' = Append(rx_tasks, "start")
    /\ app' = [app EXCEPT !.pc = "hs", !.stage = 1, !.i = 0, !.step = "top",
                          !.started = @ + 1]
    /\ UNCHANGED <<m_uart_num, m_init_ok, uart_drv, m_decoder_state, dec_rest,
                   life_rest>>

(* The head of an outer iteration of a negotiation stage: the loop test,   *)
(* then the check that the receive task is still running.  When the first  *)
(* loop ends without baud_ok the second stage starts; when the second      *)
(* ends without it, termination is requested.                              *)
HsTop ==
    /\ app.pc = "hs"
    /\ app.step = "top"
    /\ IF ~hs_more(app.i)
       THEN IF app.stage = 1
            THEN /\ app' = [app EXCEPT !.stage = 2, !.i = 0]
                 /\ UNCHANGED should_terminate
            ELSE /\ app' = [app EXCEPT !.pc = "i_fail_wait"]
                 /\ should_terminate' = TRUE
       ELSE /\ app' = IF ~thd_rx_is_running
                       THEN AppReturn([app EXCEPT !.path = "stopped"],
                                      "init_false")
                       ELSE [app EXCEPT !.step = "probe0"]
            /\ UNCHANGED should_terminate
    /\ UNCHANGED <<thd_rx_is_running, m_uart_num, m_init_ok, uart_drv,
                   rx_tasks, m_decoder_state, dec_rest, life_rest>>

(* A probe: ublox_cfg_rate in the first stage, ublox_cfg_valset in the     *)
(* second; the request is sent and its outcome r is whatever the wait      *)
(* returns.  The first probe of an iteration goes out as the transport     *)
(* is; when it fails the local transport is set to the stage's default     *)
(* rate.  The second probe follows the switch back to BAUDRATE and a       *)
(* reset_decoder_state, the third a reset_decoder_state.                   *)
HsProbe ==
    /\ app.pc = "hs"
    /\ app.step \in {"probe0", "probe1", "probe2"}
    /\ \E r \in Outcomes :
        LET a0 == IF app.step = "probe1"
                  THEN [app EXCEPT !.baud = switch_back(@),
                                   !.dirty = reset_mark(TRUE)]
                  ELSE IF app.step = "probe2"
                  THEN [app EXCEPT !.dirty = reset_mark(@)]
                  ELSE app
            a1 == IF app.stage = 1 THEN [a0 EXCEPT !.n_rate = @ + 1]
                  ELSE [a0 EXCEPT !.n_valset = @ + 1]
            a2 == [HsTx(a1, "probe") EXCEPT !.acked = (@ \/ r = 0)]
        IN  app' = IF probe_ok(r)
                   THEN [a2 EXCEPT !.baud_ok = TRUE,
                                   !.is_m10 = (app.stage = 2),
                                   !.pc = "i_full", !.step = "top"]
                   ELSE IF app.step = "probe0"
                   THEN [a2 EXCEPT !.step = "prt1",
                                   !.baud = stage_default(app.stage),
                                   !.dirty = TRUE]
                   ELSE IF app.step = "probe1" THEN [a2 EXCEPT !.step = "probe2"]
                   ELSE [a2 EXCEPT !.step = "top", !.i = @ + 1]
    /\ m_decoder_state' = IF app.step = "probe0" THEN m_decoder_state
                          ELSE reset_decoder_state
    /\ UNCHANGED <<should_terminate, thd_rx_is_running, m_uart_num, m_init_ok,
                   uart_drv, rx_tasks, dec_rest, life_rest>>

(* At the default baud rate: reset_decoder_state, then the baud-setting    *)
(* request (ublox_cfg_prt_uart, in the second stage ublox_cfg_valset),     *)
(* whose outcome is not looked at.                                         *)
HsPrt ==
    /\ app.pc = "hs"
    /\ app.step \in {"prt1", "prt2"}
    /\ LET a0 == [app EXCEPT !.dirty = reset_mark(@)]
           a1 == IF app.stage = 1 THEN [a0 EXCEPT !.n_prt = @ + 1]
                 ELSE [a0 EXCEPT !.n_valset = @ + 1]
       IN  app' = [HsTx(a1, "switch") EXCEPT
                       !.step = IF app.step = "prt1" THEN "prt2"
                                ELSE "probe1"]
    /\ m_decoder_state' = reset_decoder_state
    /\ UNCHANGED <<should_terminate, thd_rx_is_running, m_uart_num, m_init_ok,
                   uart_drv, rx_tasks, dec_rest, life_rest>>

(* After a successful negotiation: the check that the receive task is      *)
(* still running, at the head of either branch of the full configuration.  *)
(* The loops are over: their counters are gone.                            *)
InitFull ==
    /\ app.pc = "i_full"
    /\ app' = IF ~thd_rx_is_running
              THEN AppReturn([app EXCEPT !.path = "full_stopped"],
                             "init_false")
              ELSE [app EXCEPT !.pc = "full5", !.j = 1, !.i = 0,
                               !.n_rate = 0, !.n_prt = 0, !.n_valset = 0]
    /\ UNCHANGED <<should_terminate, thd_rx_is_running, m_uart_num, m_init_ok,
                   uart_drv, rx_tasks, m_decoder_state, dec_rest, life_rest>>

(* One request of the full configuration: it is sent, its outcome r is     *)
(* whatever the wait returns, and the outcome is dropped.                  *)
Full5Req ==
    /\ app.pc = "full5"
    /\ app.j <= Len(Step5Of(app.is_m10))
    /\ \E r \in Outcomes :
        LET a1 == [HsTx(app, "full") EXCEPT
                       !.sent5 = Append(@, Step5Of(app.is_m10)[app.j]),
                       !.bad5 = (@ \/ r # 0),
                       !.j = @ + 1]
        IN  app' = IF step5_continue(r) THEN a1
                   ELSE AppReturn([a1 EXCEPT !.path = "full_failed"],
                                  "init_false")
    /\ UNCHANGED <<should_terminate, thd_rx_is_running, m_uart_num, m_init_ok,
                   uart_drv, rx_tasks, m_decoder_state, dec_rest, life_rest>>

(* The terminal command is registered, m_init_ok = true, return true. *)
InitDone ==
    /\ app.pc = "full5"
    /\ app.j > Len(Step5Of(app.is_m10))
    /\ app' = AppReturn([app EXCEPT !.path = "done"], "init_true")
    /\ m_init_ok' = TRUE
    /\ UNCHANGED <<should_terminate, thd_rx_is_running, m_uart_num, uart_drv,
                   rx_tasks, m_decoder_state, dec_rest, life_rest>>

(* After a failed negotiation: the wait for the receive task, return. *)
InitFailDone ==
    /\ app.pc = "i_fail_wait"
    /\ stop_wait_done(thd_rx_is_running)
    /\ app' = AppReturn([app EXCEPT !.path = "failed"], "init_false")
    /\ UNCHANGED <<should_terminate, thd_rx_is_running, m_uart_num, m_init_ok,
                   uart_drv, rx_tasks, m_decoder_state, dec_rest, life_rest>>

(* Variant: ublox_stop acts whatever UART it is called for. *)
stop_other_never(cur, num) == FALSE

(* if (m_uart_num != num_uart) { return; } *)
stop_other(cur, num) == cur # num

(* ublox_stop: nothing for another UART, else the termination request. *)
StopCall ==
    /\ app.pc = "idle"
    /\ app.calls < MaxCalls
    /\ \E num \in Uarts :
        IF stop_other(m_uart_num, num)
        THEN /\ app' = [NoApp EXCEPT !.calls = app.calls + 1,
                                     !.ret = "stop_other", !.num = num,
                                     !.started = app.started,
                                     !.busy = app.busy]
             /\ UNCHANGED should_terminate
        ELSE /\ app' = [NoApp EXCEPT !.calls = app.calls + 1,
                                     !.num = num, !.pc = "s_wait",
                                     !.started = app.started,
                                     !.busy = thd_rx_is_running]
             /\ should_terminate' = TRUE
    /\ UNCHANGED <<thd_rx_is_running, m_uart_num, m_init_ok, uart_drv,
                   rx_tasks, m_decoder_state, dec_rest, life_rest>>

StopDone ==
    /\ app.pc = "s_wait"
    /\ stop_wait_done(thd_rx_is_running)
    /\ app' = AppReturn(app, "stop")
    /\ UNCHANGED <<should_terminate, thd_rx_is_running, m_uart_num, m_init_ok,
                   uart_drv, rx_tasks, m_decoder_state, dec_rest, life_rest>>

(* rx_task: reset_decoder_state() on entry. *)
TaskStart(k) ==
    /\ rx_tasks[k] = "start"
    /\ rx_tasks' = [rx_tasks EXCEPT ![k] = "test"]
    /\ m_decoder_state' = reset_decoder_state
    /\ UNCHANGED <<should_terminate, thd_rx_is_running, m_uart_num, m_init_ok,
                   uart_drv, app, dec_rest, life_rest>>

TaskTest(k) ==
    /\ rx_tasks[k] = "test"
    /\ rx_tasks' = [rx_tasks EXCEPT ![k] = IF loop_continue(should_terminate)
                                          THEN "drv" ELSE "exit"]
    /\ UNCHANGED <<should_terminate, thd_rx_is_running, m_uart_num, m_init_ok,
                   uart_drv, app, m_decoder_state, dec_rest, life_rest>>

(* if (!uart_is_driver_installed(m_uart_num)) break; *)
TaskDrv(k) ==
    /\ rx_tasks[k] = "drv"
    /\ rx_tasks' = [rx_tasks EXCEPT ![k] = IF m_uart_num \in uart_drv
                                          THEN "read" ELSE "exit"]
    /\ UNCHANGED <<should_terminate, thd_rx_is_running, m_uart_num, m_init_ok,
                   uart_drv, app, m_decoder_state, dec_rest, life_rest>>

(* uart_read_bytes with its 10-tick timeout: no byte, or one byte that is  *)
(* given to proc_byte.                                                     *)
TaskRead(k) ==
    /\ rx_tasks[k] = "read"
    /\ rx_tasks' = [rx_tasks EXCEPT ![k] = "test"]
    /\ \/ UNCHANGED <<m_decoder_state, dec_rest>>
       \/ /\ fed < MaxRxBytes
          /\ \E ch \in {LINE_FEED, SYNC1} : Feed(ch)
    /\ UNCHANGED <<should_terminate, thd_rx_is_running, m_uart_num, m_init_ok,
                   uart_drv, app, life_rest>>

(* thd_rx_is_running = false; *)
TaskMark(k) ==
    /\ rx_tasks[k] = "exit"
    /\ rx_tasks' = [rx_tasks EXCEPT ![k] = "marked"]
    /\ thd_rx_is_running' = FALSE
    /\ UNCHANGED <<should_terminate, m_uart_num, m_init_ok, uart_drv, app,
                   m_decoder_state, dec_rest, life_rest>>

(* vTaskDelete(NULL); *)
TaskDelete(k) ==
    /\ rx_tasks[k] = "marked"
    /\ rx_tasks' = RemoveAt(rx_tasks, k)
    /\ UNCHANGED <<should_terminate, thd_rx_is_running, m_uart_num, m_init_ok,
                   uart_drv, app, m_decoder_state, dec_rest, life_rest>>

(* Another user of a UART port deletes its driver. *)
UartDriverDelete ==
    /\ \E u \in uart_drv : uart_drv' = uart_drv \ {u}
    /\ UNCHANGED <<should_terminate, thd_rx_is_running, m_uart_num, m_init_ok,
                   rx_tasks, app, m_decoder_state, dec_rest, life_rest>>

AppStep ==
    \/ InitWaitDone
    \/ InitConf
    \/ InitStart
    \/ HsTop
    \/ HsProbe
    \/ HsPrt
    \/ InitFull
    \/ Full5Req
    \/ InitDone
    \/ InitFailDone
    \/ StopDone

RxTaskStep(k) ==
    \/ TaskStart(k)
    \/ TaskTest(k)
    \/ TaskDrv(k)
    \/ TaskRead(k)
    \/ TaskMark(k)
    \/ TaskDelete(k)

RxTasksStep == \E k \in DOMAIN rx_tasks : RxTaskStep(k)

NextLife ==
    \/ InitCall
    \/ StopCall
    \/ AppStep
    \/ RxTasksStep
    \/ UartDriverDelete

SpecLife == Init /\ [][NextLife]_vars

(* Fair scheduling of the calling thread and of the receive tasks. *)
SpecLifeFair == SpecLife /\ WF_vars(AppStep) /\ WF_vars(RxTasksStep)

C18_StopTerminates ==
    /\ (app.pc = "s_wait") ~>
           (/\ app.pc = "idle"
            /\ app.ret = "stop"
            /\ ~thd_rx_is_running
            /\ ActiveTasks = {})
    /\ (app.pc = "i_wait") ~>
           (/\ app.pc = "i_conf"
            /\ ~thd_rx_is_running
            /\ ActiveTasks = {})

(* ublox_stop was called while the receive task was running and has        *)
(* returned.                                                               *)
C18_Witness ==
    /\ app.pc = "idle"
    /\ app.ret = "stop"
    /\ app.busy
    /\ ~thd_rx_is_running
    /\ ActiveTasks = {}

(* C19: the negotiation has set baud_ok only if some probe of this call    *)
(* returned Ack.                                                           *)
C19_SuccessOnlyOnAck == app.baud_ok => app.acked

(* C20: a stage runs at most 4 outer iterations; the first stage sends at  *)
(* most 12 rate probes and 8 port-configuration requests, the second at    *)
(* most 20 key-value requests; under fair scheduling every ublox_init      *)
(* call returns.                                                           *)
C20_HandshakeBounded ==
    /\ [](/\ app.i <= 4
          /\ app.n_rate <= 12
          /\ app.n_prt <= 8
          /\ app.n_valset <= 20)
    /\ (app.pc \in {"i_wait", "i_conf", "i_start", "hs", "i_fail_wait",
                     "i_full", "full5"}) ~> (app.pc = "idle")

(* Every request of both stages timed out: all of them were sent. *)
C20_Witness ==
    /\ app.pc = "i_fail_wait"
    /\ app.n_rate = 12
    /\ app.n_prt = 8
    /\ app.n_valset = 20

(* C21: a ublox_init call in which no probe was acknowledged, and which    *)
(* was not cut short at the head of a negotiation iteration because the    *)
(* receive task had stopped, sends no request of the full configuration;   *)
(* when it has returned it returned false after requesting termination     *)
(* and waiting for the receive task, which is not running, and m_init_ok   *)
(* is false.                                                               *)
C21_FailureStops ==
    /\ (app.pc = "full5" /\ ~app.acked) => app.sent5 = <<>>
    /\ (/\ app.pc = "idle"
        /\ app.ret \in {"init_true", "init_false"}
        /\ app.path # "stopped"
        /\ ~app.acked) =>
           (/\ app.ret = "init_false"
            /\ app.path = "failed"
            /\ should_terminate
            /\ ~thd_rx_is_running
            /\ app.sent5 = <<>>
            /\ ~m_init_ok)

(* C22: the second stage is entered only after the 12 probes and 8 port    *)
(* requests of the first stage all failed; the device is treated as the    *)
(* newer generation exactly when a probe of the second stage was           *)
(* acknowledged; the full configuration of a newer device is one           *)
(* ublox_cfg_valset and nothing else, that of a legacy device is port,     *)
(* rate, nav5, the message rates, nmea, gnss in this order and no          *)
(* ublox_cfg_valset.                                                       *)
C22_StageAndGeneration ==
    LET rank(op) == CASE op = "ublox_cfg_prt_uart" -> 1
                      [] op = "ublox_cfg_rate" -> 2
                      [] op = "ublox_cfg_nav5" -> 3
                      [] op = "ublox_cfg_msg" -> 4
                      [] op = "ublox_cfg_nmea" -> 5
                      [] op = "ublox_cfg_gnss" -> 6
                      [] OTHER -> 0
        s5 == app.sent5
        done == app.pc = "idle" /\ app.ret = "init_true"
    IN  /\ (app.pc = "hs" /\ app.stage = 2) =>
               (app.n_rate = 12 /\ app.n_prt = 8 /\ ~app.acked)
        /\ (app.pc \in {"i_full", "full5"} \/ done) =>
               (app.is_m10 <=> (app.acked /\ app.stage = 2))
        /\ (app.pc = "full5" \/ done) =>
               IF app.is_m10
               THEN /\ Len(s5) <= 1
                    /\ \A k \in 1..Len(s5) : s5[k].op = "ublox_cfg_valset"
                    /\ done => Len(s5) = 1
               ELSE /\ \A k \in 1..Len(s5) : rank(s5[k].op) > 0
                    /\ \A k \in 1..(Len(s5) - 1) :
                           rank(s5[k].op) <= rank(s5[k + 1].op)
                    /\ done => {rank(s5[k].op) : k \in 1..Len(s5)} = 1..6

(* C23: once the full configuration has started (the negotiation           *)
(* succeeded and the receive task was running at its head), every step of  *)
(* ublox_init either sends the next request or is the return of true       *)
(* with m_init_ok set, whatever the outcomes of the requests were.         *)
C23_FireAndForget ==
    [][app.pc = "full5" =>
          \/ app'.pc = "full5"
          \/ /\ app'.pc = "idle"
             /\ app'.ret = "init_true"
             /\ app'.sent5 = Step5Of(app.is_m10)
             /\ m_init_ok']_vars

(* ublox_init has returned true after an acknowledged probe although a     *)
(* request of the full configuration was rejected or timed out.            *)
C23_Witness ==
    /\ app.pc = "idle"
    /\ app.ret = "init_true"
    /\ app.acked
    /\ app.bad5
    /\ m_init_ok

(* C29: no request of the negotiation is transmitted between a change of   *)
(* the local baud rate and the reset_decoder_state that follows it; every  *)
(* probe goes out with the local transport at 115200, every baud-switch    *)
(* request at 9600 in the first stage and at 38400 in the second.          *)
C29_BaudAndReset ==
    /\ app.tx.kind # "none" => ~app.tx.dirty
    /\ app.tx.kind = "probe" => app.tx.baud = 115200
    /\ app.tx.kind = "switch" =>
           app.tx.baud = (IF app.tx.stage = 1 THEN 9600 ELSE 38400)
    /\ app.pc = "hs" /\ app.step \in {"prt1", "prt2"} =>
           app.baud = (IF app.stage = 1 THEN 9600 ELSE 38400)

(* In the second stage the probe that follows the two baud-switch          *)
(* requests and the switch back has been sent and has failed.              *)
C29_Witness ==
    /\ app.pc = "hs"
    /\ app.stage = 2
    /\ app.step = "probe2"
    /\ app.tx.kind = "probe"
    /\ app.tx.baud = 115200
    /\ app.n_valset >= 4

---------------------------------------------------------------------------
(* The handlers ubx_decode calls.  Their argument msg is the buffer        *)
(* m_decoder_state.ubx: its first len bytes are the payload of the frame   *)
(* just received, the bytes behind them are left from earlier frames.  A   *)
(* payload is modelled by its length, the value b of its bytes and the     *)
(* value s of the bytes left behind it.                                    *)

MaxSets == 2
MaxPolls == 2

(* The values a count byte takes: around the capacities 40 and 128. *)
PayBytes == {0, 1, 40, 41, 128, 129, 255}

(* The payloads received: one of 64 bytes, and an empty one, for which     *)
(* every byte a handler reads is a byte left behind.                       *)
RxPayloads ==
    {[len |-> 64, b |-> b, s |-> 0] : b \in PayBytes}
    \cup {[len |-> 0, b |-> 0, s |-> st] : st \in {0, 200}}

Funcs == {0, 1, 2}

(* msg[off] *)
MsgByte(m, off) == IF off < m.len THEN m.b ELSE m.s

(* A handler walks the payload with the cursor ind: ubx_get_<T> reads      *)
(* sizeof(T) bytes at the cursor and advances it, ind += n skips.  hi is   *)
(* the end of the last read.                                               *)
Get(n) == <<"get", n>>
Skip(n) == <<"skip", n>>

RECURSIVE Walk(_, _)
Walk(layout, w) ==
    IF layout = <<>> THEN w
    ELSE LET f == Head(layout)
         IN  Walk(Tail(layout),
                  [ind |-> w.ind + f[2],
                   hi |-> IF f[1] = "get" THEN w.ind + f[2] ELSE w.hi])

Cursor0 == [ind |-> 0, hi |-> 0]

(* for (int i = 0; i < n; i++) { the reads of one entry }: every pass      *)
(* moves the cursor by the size of an entry; the last read of the last     *)
(* pass is the highest.                                                    *)
LoopWalk(entry, w, n) ==
    IF n <= 0 THEN w
    ELSE LET e == Walk(entry, Cursor0)
         IN  [ind |-> w.ind + n * e.ind,
              hi |-> w.ind + (n - 1) * e.ind + e.hi]

nav_sol_layout ==
    << Get(4), Get(4), Get(2), Get(1), Get(1), Get(4), Get(4), Get(4),
       Get(4), Get(4), Get(4), Get(4), Get(4), Get(2), Skip(1), Get(1) >>

relposned_layout(version) ==
    << Get(1), Get(1), Get(2), Get(4), Get(4), Get(4), Get(4) >>
    \o (IF version = 1 THEN << Get(4), Get(4), Skip(4) >> ELSE << >>)
    \o << Get(1), Get(1), Get(1) >>
    \o (IF version = 1 THEN << Get(1) >> ELSE << Skip(1) >>)
    \o << Get(4), Get(4), Get(4) >>
    \o (IF version = 1 THEN << Get(4), Get(4), Skip(4) >> ELSE << >>)
    \o << Get(4) >>

svin_layout ==
    << Skip(4), Get(4), Get(4), Get(4), Get(4), Get(4), Get(1), Get(1),
       Get(1), Skip(1), Get(4), Get(4), Get(1), Get(1) >>

ack_layout == << Get(1), Get(1) >>

(* rawx: the head, then ind = 16. *)
rawx_head == << Get(8), Get(2), Get(1), Get(1), Get(1), Skip(3) >>

rawx_entry ==
    << Get(8), Get(8), Get(4), Get(1), Get(1), Skip(1), Get(1), Get(2),
       Get(1), Get(1), Get(1), Get(1), Get(1), Skip(1) >>

nav_sat_head == << Get(4), Get(1), Get(1), Get(1), Get(1) >>

nav_sat_entry ==
    << Get(1), Get(1), Get(1), Get(1), Get(2), Get(2), Get(4) >>

cfg_gnss_head == << Get(1), Get(1), Get(1), Get(1) >>

cfg_gnss_entry == << Get(1), Get(1), Get(1), Get(1), Get(4) >>

nav_sol_walk == Walk(nav_sol_layout, Cursor0)
svin_walk == Walk(svin_layout, Cursor0)
ack_walk == Walk(ack_layout, Cursor0)
rawx_head_walk == Walk(rawx_head, Cursor0)
nav_sat_head_walk == Walk(nav_sat_head, Cursor0)
cfg_gnss_head_walk == Walk(cfg_gnss_head, Cursor0)

(* Variant: the subscriber pointer is called without the test. *)
cb_call_always(f) == <<f>>

(* if (rx_x) { rx_x(&record); } *)
cb_call(f) == IF f # 0 THEN <<f>> ELSE <<>>

(* Variant: no raw-measurement message is rejected. *)
rawx_reject_never(num_meas) == FALSE

(* if (raw.num_meas > 40) { commands_printf(...); return; } *)
rawx_reject(num_meas) == num_meas > 40

(* Variant: the satellite count is not clamped. *)
sat_clamp_none(num_sv) == num_sv

(* if (sat.num_sv > 128) { sat.num_sv = 128; } *)
sat_clamp(num_sv) == IF num_sv > 128 THEN 128 ELSE num_sv

(* if (cfg.num_blocks > 10) { cfg.num_blocks = 10; } *)
gnss_clamp(num_blocks) == IF num_blocks > 10 THEN 10 ELSE num_blocks

(* The end of the string printf("%s") reads at msg + off: the offset      *)
(* behind its terminating 0, or the end of the buffer when no byte from    *)
(* off on is 0.                                                            *)
StrEnd(m, off) ==
    IF off < m.len /\ m.b = 0 THEN off + 1
    ELSE IF m.s = 0 THEN (IF off < m.len THEN m.len ELSE off) + 1
    ELSE UBX_BUFFER_SIZE

(* ubx_decode_mon_ver prints the strings at msg and msg + 30, then one    *)
(* at every ind = 40, 70, ... below len: the highest offset it reads.      *)
MonVerEnd(m) ==
    LET e0 == StrEnd(m, 0)
        e1 == StrEnd(m, 30)
        e2 == IF 40 < m.len
              THEN StrEnd(m, 40 + 30 * ((m.len - 41) \div 30)) ELSE 0
        hi(x, y) == IF x > y THEN x ELSE y
    IN  hi(e0, hi(e1, e2))

(* Variant: the dump flag is left as it is. *)
print_keep(pn) == pn

(* if (m_print_next_x) { m_print_next_x = false; ... } *)
print_clear(pn) == FALSE

(* The tail every telemetry handler shares: the subscriber call, then the  *)
(* one-shot dump.                                                          *)
HandlerTail(f, pn) ==
    [cbs |-> cb_call(f),
     diag |-> IF pn THEN <<"dump">> ELSE <<>>,
     pn |-> IF pn THEN print_clear(pn) ELSE pn]

(* What handler h does on payload m when the subscriber pointer of its     *)
(* record type is f and its dump flag is pn.  wr is the range of the       *)
(* indices of the entries the loop writes: <<first, last>>, empty when     *)
(* last < first.                                                           *)
Handle(h, m, f, pn) ==
    LET plain(w) == HandlerTail(f, pn) @@
                     [wire |-> -1, count |-> -1, wr |-> <<0, -1>>,
                      read_end |-> w.hi, gave |-> FALSE]
        counted(wire, n, w) ==
                    HandlerTail(f, pn) @@
                     [wire |-> wire, count |-> n, wr |-> <<0, n - 1>>,
                      read_end |-> w.hi, gave |-> FALSE]
        nothing == [cbs |-> <<>>, diag |-> <<>>, pn |-> pn, wire |-> -1,
                    count |-> -1, wr |-> <<0, -1>>, read_end |-> 0,
                    gave |-> FALSE]
    IN  CASE h = "ubx_decode_nav_sol" -> plain(nav_sol_walk)
          [] h = "ubx_decode_relposned" ->
                plain(Walk(relposned_layout(MsgByte(m, 0)), Cursor0))
          [] h = "ubx_decode_svin" -> plain(svin_walk)
          [] h \in {"ubx_decode_ack", "ubx_decode_nak"} ->
                [nothing EXCEPT !.read_end = ack_walk.hi,
                                !.gave = TRUE]
          [] h = "ubx_decode_rawx" ->
                LET w0 == rawx_head_walk
                    num_meas == MsgByte(m, 11)
                IN  IF rawx_reject(num_meas)
                    THEN [nothing EXCEPT
                            !.diag = <<"Too many raw measurements">>,
                            !.wire = num_meas, !.count = num_meas,
                            !.read_end = w0.hi]
                    ELSE counted(num_meas, num_meas,
                                 LoopWalk(rawx_entry, w0, num_meas))
          [] h = "ubx_decode_nav_sat" ->
                LET w0 == nav_sat_head_walk
                    num_sv == sat_clamp(MsgByte(m, 5))
                IN  counted(MsgByte(m, 5), num_sv,
                            LoopWalk(nav_sat_entry, w0, num_sv))
          [] h = "ubx_decode_cfg_gnss" ->
                LET w0 == cfg_gnss_head_walk
                    num_blocks == gnss_clamp(MsgByte(m, 3))
                IN  counted(MsgByte(m, 3), num_blocks,
                            LoopWalk(cfg_gnss_entry, w0, num_blocks))
          [] h = "ubx_decode_mon_ver" ->
                IF pn
                THEN [nothing EXCEPT
                        !.diag = <<"dump">>, !.pn = print_clear(pn),
                        !.read_end = MonVerEnd(m)]
                ELSE nothing
          [] OTHER -> nothing

dsp_rest == <<m_decoder_state, uart_rx, decoded, nmea_lines, rx_frame, last,
              scn, fed, req, rx_log, sem_log, enc_ubx, snd, life_vars, cod,
              ops, race, tp5>>

(* ublox_set_rx_callback_<type>(func) *)
SetRxCallback ==
    /\ dsp.sets < MaxSets
    /\ \E h \in TelemetryHandlers : \E f \in Funcs :
           rx_cb' = [rx_cb EXCEPT ![h] = f]
    /\ dsp' = [dsp EXCEPT !.sets = @ + 1]
    /\ UNCHANGED <<m_print_next, uart_tx, wait_sem, wait_was_ack, dsp_rest>>

(* The class and id numbers of the messages the terminal command polls. *)
PollClassId(h) ==
    CASE h = "ubx_decode_nav_sol" -> <<1, 6>>
      [] h = "ubx_decode_relposned" -> <<1, 60>>
      [] h = "ubx_decode_svin" -> <<1, 59>>
      [] h = "ubx_decode_rawx" -> <<2, 21>>
      [] h = "ubx_decode_nav_sat" -> <<1, 53>>
      [] h = "ubx_decode_mon_ver" -> <<10, 4>>
      [] h = "ubx_decode_cfg_gnss" -> <<6, 62>>

(* The message names given to the terminal command, by the handler of the *)
(* message: a telemetry message, the raw-measurement message (whose        *)
(* handler can reject), the version message (which has no subscriber), and *)
(* a name the command does not know.                                       *)
PollArgs == {"ubx_decode_nav_sol", "ubx_decode_rawx", "ubx_decode_mon_ver",
             "none"}

(* ubx_terminal_cmd_poll with two arguments: for a supported message name  *)
(* the dump flag is set and the message is polled; any other name sets     *)
(* nothing and sends nothing.                                              *)
TerminalPoll ==
    /\ dsp.polls < MaxPolls
    /\ \E h \in PollArgs :
        IF h = "none"
        THEN /\ dsp' = [dsp EXCEPT !.polls = @ + 1]
             /\ UNCHANGED <<m_print_next, uart_tx>>
        ELSE /\ dsp' = [dsp EXCEPT !.polls = @ + 1, !.due[h] = TRUE]
             /\ m_print_next' = [m_print_next EXCEPT ![h] = TRUE]
             /\ ublox_send(ubx_encode_send(PollClassId(h)[1],
                                           PollClassId(h)[2], <<>>))
    /\ UNCHANGED <<rx_cb, wait_sem, wait_was_ack, dsp_rest>>

(* A message of a type that has a dump flag has been decoded: every       *)
(* message of such a type but a raw-measurement message that was rejected. *)
Decoded(h, r) ==
    /\ h \in PrintHandlers
    /\ ~(h = "ubx_decode_rawx" /\ r.wire > 40)

(* proc_byte has received a complete valid frame and calls ubx_decode,     *)
(* which calls the handler of its (class, id), if there is one.            *)
Dispatch ==
    /\ \E class \in Classes : \E id \in IdsOf(class) :
       \E m \in RxPayloads :
        LET h == ubx_decode(class, id)
            f == IF h \in TelemetryHandlers THEN rx_cb[h] ELSE 0
            pn == IF h \in PrintHandlers THEN m_print_next[h] ELSE FALSE
            r == Handle(h, m, f, pn)
        IN  /\ dsp' = r @@ [h |-> h, class |-> class, id |-> id,
                            len |-> m.len, reg |-> f, sets |-> dsp.sets,
                            polls |-> dsp.polls, n |-> 1,
                            due |-> IF Decoded(h, r)
                                    THEN [dsp.due EXCEPT ![h] = FALSE]
                                    ELSE dsp.due,
                            was_due |-> Decoded(h, r) /\ dsp.due[h]]
            /\ m_print_next' = IF h \in PrintHandlers
                               THEN [m_print_next EXCEPT ![h] = r.pn]
                               ELSE m_print_next
            /\ wait_was_ack' = IF r.gave THEN ack_outcome(h) ELSE wait_was_ack
            /\ wait_sem' = IF r.gave THEN xSemaphoreGive(wait_sem)
                           ELSE wait_sem
    /\ UNCHANGED <<rx_cb, uart_tx, dsp_rest>>

NextDispatch ==
    \/ SetRxCallback
    \/ Dispatch

(* The terminal command and the frames that follow it. *)
NextPrint ==
    \/ TerminalPoll
    \/ Dispatch

SpecPrint == Init /\ [][NextPrint]_vars

SpecDispatch == Init /\ [][NextDispatch]_vars

(* C24: a frame handed to ubx_decode calls at most one subscriber, inside  *)
(* the call: the function most recently registered for the record type of  *)
(* its handler, and none when none is registered; a frame of an unknown    *)
(* (class, id) calls no subscriber, prints nothing and does not give the   *)
(* semaphore.                                                              *)
C24_OneCallback ==
    dsp.n = 1 =>
        /\ Len(dsp.cbs) <= 1
        /\ dsp.cbs \in {<<>>, <<dsp.reg>>}
        /\ dsp.reg = 0 => dsp.cbs = <<>>
        /\ (/\ dsp.h \in TelemetryHandlers /\ dsp.reg # 0
            /\ ~(dsp.h = "ubx_decode_rawx" /\ dsp.wire > 40)) =>
               dsp.cbs = <<dsp.reg>>
        /\ dsp.h \notin TelemetryHandlers => dsp.cbs = <<>>
        /\ dsp.h = "none" =>
               dsp.cbs = <<>> /\ dsp.diag = <<>> /\ ~dsp.gave

(* A second registration has replaced the subscriber of a record type, a   *)
(* frame of that type has called the second function, and no other type    *)
(* has a subscriber.                                                       *)
C24_Witness ==
    /\ dsp.n = 1 /\ dsp.sets = 2 /\ dsp.h = "ubx_decode_nav_sol"
    /\ dsp.reg = 2 /\ dsp.cbs = <<2>>
    /\ \A h \in TelemetryHandlers \ {"ubx_decode_nav_sol"} : rx_cb[h] = 0

(* C25: a raw-measurement message whose count is above 40 calls no         *)
(* subscriber and prints a diagnostic; one whose count is at most 40 calls *)
(* the registered subscriber once, with a record of that count.            *)
C25_RawxBound ==
    (dsp.n = 1 /\ dsp.h = "ubx_decode_rawx") =>
        /\ dsp.wire > 40 =>
               /\ dsp.cbs = <<>>
               /\ dsp.diag = <<"Too many raw measurements">>
               /\ dsp.wr[2] < dsp.wr[1]
        /\ (dsp.wire <= 40 /\ dsp.reg # 0) =>
               /\ dsp.cbs = <<dsp.reg>>
               /\ dsp.count = dsp.wire
               /\ dsp.wr = <<0, dsp.wire - 1>>

(* A message of exactly 40 measurements has reached the subscriber. *)
C25_Witness ==
    /\ dsp.n = 1 /\ dsp.h = "ubx_decode_rawx" /\ dsp.wire = 40
    /\ dsp.reg # 0 /\ dsp.cbs = <<dsp.reg>> /\ dsp.count = 40

(* C26: a satellite message with any count byte calls the registered       *)
(* subscriber once with the count min(num_sv, 128), and writes only the    *)
(* entries below that count.                                               *)
C26_SatClamp ==
    (dsp.n = 1 /\ dsp.h = "ubx_decode_nav_sat") =>
        /\ dsp.wire \in 0..255
        /\ dsp.count = (IF dsp.wire < 128 THEN dsp.wire ELSE 128)
        /\ dsp.wr = <<0, dsp.count - 1>>
        /\ dsp.wr[2] < 128
        /\ dsp.reg # 0 => dsp.cbs = <<dsp.reg>>

(* A message that announces 255 satellites has reached the subscriber      *)
(* with the count 128.                                                     *)
C26_Witness ==
    /\ dsp.n = 1 /\ dsp.h = "ubx_decode_nav_sat" /\ dsp.wire = 255
    /\ dsp.count = 128 /\ dsp.reg # 0 /\ dsp.cbs = <<dsp.reg>>

(* C30: a handler reads only payload bytes below the length of the frame   *)
(* it was called for.                                                      *)
C30_ReadsWithinLength ==
    (dsp.n = 1 /\ dsp.h # "none") => dsp.read_end <= dsp.len

---------------------------------------------------------------------------
(* The field codec on a buffer: a value is put at a cursor and read back   *)
(* from the same cursor.                                                   *)

CodBufLen == 12

(* The byte the buffer holds before the put. *)
Fill == 170

Cursors == {0, 3}

Types == {"U1", "I1", "X1", "U2", "I2", "X2", "U4", "I4", "X4", "R4", "R8"}

(* sizeof(T) *)
SizeOf(T) ==
    IF T \in {"U1", "I1", "X1"} THEN 1
    ELSE IF T \in {"U2", "I2", "X2"} THEN 2
    ELSE IF T = "R8" THEN 8 ELSE 4

INT32_MIN == -2147483647 - 1

(* 1.0f, 1.0 and -0.0 are among the bit patterns. *)
ValsOf(T) ==
    IF T \in {"U1", "X1"} THEN {0, 1, 127, 128, 255}
    ELSE IF T = "I1" THEN {-128, -1, 0, 1, 127}
    ELSE IF T \in {"U2", "X2"} THEN {0, 255, 256, 4660, 32768, 65535}
    ELSE IF T = "I2" THEN {-32768, -256, -1, 0, 4660, 32767}
    ELSE IF T = "I4" THEN {INT32_MIN, -65536, -1, 0, 305419896, 2147483647}
    ELSE IF T = "R8"
         THEN {<<0, 0, 0, 0>>, <<0, 0, 0, 16368>>, <<0, 0, 0, 32768>>,
               <<48879, 57005, 22136, 4660>>, <<65535, 65535, 65535, 65535>>}
    ELSE {<<0, 0>>, <<0, 16256>>, <<0, 32768>>, <<22136, 4660>>,
          <<65535, 65535>>}

(* What the upper half of the union in ubx_put_R4 can hold. *)
Uppers == {<<0, 0>>, <<65535, 65535>>}

codec_put(T, b, data, upper) ==
    CASE T = "U1" -> ubx_put_U1(b, data)
      [] T = "I1" -> ubx_put_I1(b, data)
      [] T = "X1" -> ubx_put_X1(b, data)
      [] T = "U2" -> ubx_put_U2(b, data)
      [] T = "I2" -> ubx_put_I2(b, data)
      [] T = "X2" -> ubx_put_X2(b, data)
      [] T = "U4" -> ubx_put_U4(b, data)
      [] T = "I4" -> ubx_put_I4(b, data)
      [] T = "X4" -> ubx_put_X4(b, data)
      [] T = "R4" -> ubx_put_R4(b, data, upper)
      [] T = "R8" -> ubx_put_R8(b, data)

codec_get(T, b) ==
    CASE T = "U1" -> ubx_get_U1(b)
      [] T = "I1" -> ubx_get_I1(b)
      [] T = "X1" -> ubx_get_X1(b)
      [] T = "U2" -> ubx_get_U2(b)
      [] T = "I2" -> ubx_get_I2(b)
      [] T = "X2" -> ubx_get_X2(b)
      [] T = "U4" -> ubx_get_U4(b)
      [] T = "I4" -> ubx_get_I4(b)
      [] T = "X4" -> ubx_get_X4(b)
      [] T = "R4" -> ubx_get_R4(b)
      [] T = "R8" -> ubx_get_R8(b)

cod_rest == <<m_decoder_state, uart_rx, uart_tx, decoded, nmea_lines,
              rx_frame, last, scn, fed, wait_sem, wait_was_ack, req, rx_log,
              sem_log, enc_ubx, snd, life_vars, rx_cb, m_print_next, dsp,
              ops, race, tp5>>

(* int ind = c; ubx_put_<T>(msg, &ind, v); *)
CodecPut ==
    /\ cod.pc \in {"none", "got"}
    /\ \E T \in Types : \E v \in ValsOf(T) : \E c \in Cursors :
       \E upper \in Uppers :
        LET b0 == [msg |-> [i \in 1..CodBufLen |-> Fill], ind |-> c]
            b1 == codec_put(T, b0, v, upper)
        IN  cod' = [pc |-> "put", T |-> T, v |-> v, c |-> c,
                    buf |-> b1.msg, ind |-> b1.ind, out |-> 0,
                    ind_get |-> 0]
    /\ UNCHANGED cod_rest

(* int ind = c; out = ubx_get_<T>(msg, &ind); *)
CodecGet ==
    /\ cod.pc = "put"
    /\ LET r == codec_get(cod.T, [msg |-> cod.buf, ind |-> cod.c])
       IN  cod' = [cod EXCEPT !.pc = "got", !.out = r.v, !.ind_get = r.ind]
    /\ UNCHANGED cod_rest

NextCodec ==
    \/ CodecPut
    \/ CodecGet

SpecCodec == Init /\ [][NextCodec]_vars

(* The 16-bit half j of the little-endian image of a value of type T. *)
HalfOf(T, v, j) ==
    IF T \in {"U4", "X4", "R4", "R8"} THEN v[j + 1]
    ELSE (v \div Pow2(16 * j)) % 65536

(* C27: a put of a value of any field type writes exactly sizeof(T) bytes  *)
(* at the cursor, least significant byte first, and advances the cursor by *)
(* sizeof(T); the get of the same type at the same cursor returns the      *)
(* value that was put and advances the cursor by the same amount.          *)
C27_CodecRoundTrip ==
    cod.pc \in {"put", "got"} =>
        LET n == SizeOf(cod.T)
        IN  /\ cod.ind = cod.c + n
            /\ \A i \in 1..CodBufLen :
                   (i <= cod.c \/ i > cod.c + n) => cod.buf[i] = Fill
            /\ n = 1 => cod.buf[cod.c + 1] = cod.v % 256
            /\ n > 1 => \A j \in 0..(n \div 2 - 1) :
                   cod.buf[cod.c + 2 * j + 1] + 256 * cod.buf[cod.c + 2 * j + 2]
                       = HalfOf(cod.T, cod.v, j)
            /\ cod.pc = "got" =>
                   cod.out = cod.v /\ cod.ind_get = cod.c + n

(* INT32_MIN has been put at cursor 3 as 00 00 00 80 and read back. *)
C27_Witness ==
    /\ cod.pc = "got" /\ cod.T = "I4" /\ cod.c = 3
    /\ cod.v = INT32_MIN /\ cod.out = INT32_MIN
    /\ SubSeq(cod.buf, 4, 7) = <<0, 0, 0, 128>>

---------------------------------------------------------------------------
(* The configuration requests: each builds a payload, hands one frame to   *)
(* ubx_encode_send and returns wait_ack_nak(CFG_ACK_WAIT_MS).              *)

MaxOps == 2

CfgOps == {"ublox_cfg_prt_uart", "ublox_cfg_tmode3", "ublox_cfg_msg",
           "ublox_cfg_rate", "ublox_cfg_cfg", "ublox_cfg_nav5",
           "ublox_cfg_tp5", "ublox_cfg_gnss", "ublox_cfg_nmea",
           "ublox_cfg_valset"}

(* The argument that decides the size of the payload: gnss->num_blocks of  *)
(* ublox_cfg_gnss (a uint8_t), len of ublox_cfg_valset.                    *)
OpArgs(op) ==
    IF op = "ublox_cfg_gnss" THEN {0, 3, 10, 11, 255}
    ELSE IF op = "ublox_cfg_valset" THEN {0, 8}
    ELSE {0}

(* The message id of the frame the operation sends. *)
OpMsg(op) ==
    CASE op = "ublox_cfg_prt_uart" -> "UBX_CFG_PRT"
      [] op = "ublox_cfg_tmode3" -> "UBX_CFG_TMODE3"
      [] op = "ublox_cfg_msg" -> "UBX_CFG_MSG"
      [] op = "ublox_cfg_rate" -> "UBX_CFG_RATE"
      [] op = "ublox_cfg_cfg" -> "UBX_CFG_CFG"
      [] op = "ublox_cfg_nav5" -> "UBX_CFG_NAV5"
      [] op = "ublox_cfg_tp5" -> "UBX_CFG_TP5"
      [] op = "ublox_cfg_gnss" -> "UBX_CFG_GNSS"
      [] op = "ublox_cfg_nmea" -> "UBX_CFG_NMEA"
      [] op = "ublox_cfg_valset" -> "UBX_CFG_VALSET"

(* The size of the payload buffer of the operation. *)
OpBuf(op, arg) ==
    CASE op = "ublox_cfg_prt_uart" -> 20
      [] op = "ublox_cfg_tmode3" -> 40
      [] op = "ublox_cfg_msg" -> 8
      [] op = "ublox_cfg_rate" -> 6
      [] op = "ublox_cfg_cfg" -> 13
      [] op = "ublox_cfg_nav5" -> 36
      [] op = "ublox_cfg_tp5" -> 32
      [] op = "ublox_cfg_gnss" -> 4 + 8 * arg
      [] op = "ublox_cfg_nmea" -> 20
      [] op = "ublox_cfg_valset" -> arg + 4

(* Variant: no request is refused. *)
cfg_refuse_never(op, arg) == FALSE

(* if (gnss->num_blocks > 10) { return -2; } *)
cfg_refuse(op, arg) == op = "ublox_cfg_gnss" /\ arg > 10

ops_rest == <<m_decoder_state, uart_rx, uart_tx, decoded, nmea_lines,
              rx_frame, last, scn, fed, req, rx_log, sem_log, enc_ubx, snd,
              life_vars, rx_cb, m_print_next, dsp, cod, race, tp5>>

(* A configuration request is called: it returns -2 at once, or encodes    *)
(* and sends its frame and enters wait_ack_nak.                            *)
OpCall ==
    /\ ops.pc \in {"idle", "done"}
    /\ ops.n < MaxOps
    /\ \E op \in CfgOps : \E arg \in OpArgs(op) :
        ops' = IF cfg_refuse(op, arg)
               THEN [op |-> op, arg |-> arg, n |-> ops.n + 1,
                     frames |-> <<>>, ret |-> -2, pc |-> "done"]
               ELSE [op |-> op, arg |-> arg, n |-> ops.n + 1,
                     frames |-> <<[id |-> OpMsg(op),
                                   buf |-> OpBuf(op, arg)]>>,
                     ret |-> 0, pc |-> "waiting"]
    /\ UNCHANGED <<wait_sem, wait_was_ack, ops_rest>>

(* The receive task decodes an ACK-ACK or ACK-NAK of the device. *)
OpReply ==
    /\ \E h \in GivingHandlers :
        /\ wait_was_ack' = ack_outcome(h)
        /\ wait_sem' = xSemaphoreGive(wait_sem)
    /\ UNCHANGED <<ops, ops_rest>>

(* xSemaphoreTake returns pdTRUE. *)
OpTake ==
    /\ ops.pc = "waiting"
    /\ wait_sem > 0
    /\ wait_sem' = wait_sem - 1
    /\ ops' = [ops EXCEPT !.pc = "done",
                          !.ret = wait_result(TRUE, wait_was_ack)]
    /\ UNCHANGED <<wait_was_ack, ops_rest>>

(* xSemaphoreTake returns pdFALSE after CFG_ACK_WAIT_MS. *)
OpTimeout ==
    /\ ops.pc = "waiting"
    /\ wait_sem = 0
    /\ ops' = [ops EXCEPT !.pc = "done",
                          !.ret = wait_result(FALSE, wait_was_ack)]
    /\ UNCHANGED <<wait_sem, wait_was_ack, ops_rest>>

NextOps ==
    \/ OpCall
    \/ OpReply
    \/ OpTake
    \/ OpTimeout

SpecOps == Init /\ [][NextOps]_vars

(* C28: every configuration request, for every input, has sent exactly one *)
(* frame when it returns, and returns 0, 1 or -1.                          *)
C28_OneFrameTriState ==
    ops.pc = "done" =>
        Len(ops.frames) = 1 /\ ops.ret \in {0, 1, -1}

(* C28, amended: ublox_cfg_gnss with more than 10 blocks sends nothing and *)
(* returns -2; every other call has sent exactly one frame, of its own     *)
(* message id, when it returns, and returns 0, 1 or -1.                    *)
C28_OneFrameUnlessRefused ==
    /\ ops.pc = "waiting" => Len(ops.frames) = 1
    /\ ops.pc = "done" =>
        IF ops.op = "ublox_cfg_gnss" /\ ops.arg > 10
        THEN ops.frames = <<>> /\ ops.ret = -2
        ELSE /\ Len(ops.frames) = 1
             /\ ops.frames[1].id = OpMsg(ops.op)
             /\ ops.ret \in {0, 1, -1}

(* ublox_cfg_gnss with exactly 10 blocks has sent its frame and returned   *)
(* the device's rejection.                                                 *)
C28_Witness ==
    /\ ops.pc = "done" /\ ops.op = "ublox_cfg_gnss" /\ ops.arg = 10
    /\ Len(ops.frames) = 1 /\ ops.frames[1].buf = 84 /\ ops.ret = 1

---------------------------------------------------------------------------
(* C31: the dumps are one-shot.  dsp.due[h] holds when a poll command for  *)
(* the type of h has been issued and no message of that type has been      *)
(* decoded since.  A decoded message is dumped exactly when its type was   *)
(* due, a message that was not decoded is not dumped, and the flag of a    *)
(* type is set exactly while the type is due.                              *)
C31_OneShotDump ==
    /\ \A h \in PrintHandlers : m_print_next[h] = dsp.due[h]
    /\ dsp.n = 1 =>
        /\ (dsp.diag = <<"dump">>) = dsp.was_due
        /\ dsp.h \notin PrintHandlers => dsp.diag = <<>>

(* Both polls have been issued, and the message decoded last found its     *)
(* type not due and was not dumped: an earlier message used up the poll.   *)
C31_Witness ==
    /\ dsp.n = 1 /\ dsp.polls = 2 /\ dsp.h = "ubx_decode_nav_sol"
    /\ ~dsp.was_due /\ dsp.diag = <<>>
    /\ \A h \in PrintHandlers : ~m_print_next[h]
    /\ Len(uart_tx) = 2 /\ uart_tx[1] = uart_tx[2]
    /\ uart_tx[1] = <<SYNC1, SYNC2, 1, 6, 0, 0, 7, 22>>

---------------------------------------------------------------------------
(* C32: every store of proc_byte into the UBX payload buffer is at an      *)
(* index in 0..UBX_BUFFER_SIZE-1, whatever length the header declares.     *)
C32_UbxStoreInRange ==
    last.ubx_wr \subseteq 0..(UBX_BUFFER_SIZE - 1)

---------------------------------------------------------------------------
(* reset_decoder_state on the thread that runs the ublox_init handshake    *)
(* against proc_byte on the receive task.  Neither takes a lock.  The      *)
(* proc_byte call of a payload byte is split between the test              *)
(* (ubx_pos - 6) < ubx_len and the store ubx[ubx_pos - 6] = ch; every      *)
(* other call is one step.                                                 *)

MaxRaceFeed == 9
MaxResets == 1

RaceBytes == {SYNC1, SYNC2, 0, 2}

(* The branch of the if-chain that stores a payload byte is taken. *)
payload_branch(ds) ==
    /\ ubx_gate(ds)
    /\ ds.ubx_pos >= 6
    /\ (ds.ubx_pos - 6) < ds.ubx_len

race_rest == <<uart_rx, uart_tx, decoded, nmea_lines, rx_frame, last, scn,
               fed, wait_sem, wait_was_ack, req, rx_log, sem_log, enc_ubx,
               snd, life_vars, rx_cb, m_print_next, dsp, cod, ops, tp5>>

(* proc_byte(ch) for a byte that is not stored as payload. *)
RaceByte ==
    /\ race.pc = "idle"
    /\ race.fed < MaxRaceFeed
    /\ ~payload_branch(m_decoder_state)
    /\ \E ch \in RaceBytes : \E r \in proc_byte(m_decoder_state, ch) :
        /\ m_decoder_state' = r.ds
        /\ race' = [race EXCEPT !.fed = @ + 1, !.ch = ch]
    /\ UNCHANGED race_rest

(* proc_byte(ch) up to the test that selects the payload store. *)
RaceTest ==
    /\ race.pc = "idle"
    /\ race.fed < MaxRaceFeed
    /\ payload_branch(m_decoder_state)
    /\ \E ch \in RaceBytes :
        race' = [race EXCEPT !.pc = "tested", !.fed = @ + 1, !.ch = ch,
                             !.pos0 = m_decoder_state.ubx_pos]
    /\ UNCHANGED <<m_decoder_state, race_rest>>

(* reset_decoder_state() in the handshake of ublox_init. *)
RaceReset ==
    /\ race.resets < MaxResets
    /\ m_decoder_state' = reset_decoder_state
    /\ race' = [race EXCEPT !.resets = @ + 1,
                            !.hit = @ \/ race.pc = "tested"]
    /\ UNCHANGED race_rest

(* Variant: the store uses the position as it is in memory now. *)
store_pos_reread(pos0, pos) == {pos}

(* The position ubx[ubx_pos - 6] = ch and ubx_pos++ work on: the value     *)
(* the test loaded, or the value in memory now (the compiler may keep the  *)
(* member in a register or load it again).                                 *)
store_pos(pos0, pos) == {pos0, pos}

(* The rest of the proc_byte call: ubx[ubx_pos - 6] = ch, the checksum     *)
(* update and ubx_pos++; the byte counts as used.                          *)
RaceStore ==
    /\ race.pc = "tested"
    /\ \E pos \in store_pos(race.pos0, m_decoder_state.ubx_pos) :
       LET d0 == [m_decoder_state EXCEPT !.ubx_pos = pos]
       IN  \E d1 \in ubx_store(d0, race.ch) :
            /\ m_decoder_state' = pos_inc(ck_add(d1, race.ch))
            /\ race' = [race EXCEPT !.pc = "idle", !.wr = pos - 6]
    /\ UNCHANGED race_rest

NextRace ==
    \/ RaceByte
    \/ RaceTest
    \/ RaceReset
    \/ RaceStore

SpecRace == Init /\ [][NextRace]_vars

(* C33: reset_decoder_state never runs while a proc_byte call is between   *)
(* its test and its store; every payload store is at the index that was    *)
(* tested, which is at least 0; and between calls a position inside a      *)
(* frame lies within the frame the length field declares.                  *)
C33_NoResetInsideProcByte ==
    /\ ~race.hit
    /\ race.wr >= 0
    /\ (race.pc = "idle" /\ m_decoder_state.ubx_pos >= 6) =>
           m_decoder_state.ubx_pos - 6 <= m_decoder_state.ubx_len + 1


(* ---------------------------------------------------------------------- *)
(* ublox_init_ok: return m_init_ok.  The flag is cleared by the first      *)
(* statement of ublox_init and set by its successful return; ublox_stop    *)
(* and the end of rx_task do not touch it.                                 *)
(* ---------------------------------------------------------------------- *)
ublox_init_ok == m_init_ok

InInit == app.pc \notin {"idle", "s_wait"}

(* C34: ublox_init_ok() is true only when no ublox_init call is under way  *)
(* and the receive task of the session is still running; it is false       *)
(* during ublox_init and after ublox_stop has stopped the session.         *)
C34_InitOkMeansLiveSession ==
    ublox_init_ok => /\ ~InInit
                     /\ thd_rx_is_running
                     /\ app.ret # "stop"

(* The part the code keeps: never true while ublox_init is under way. *)
C34_FalseDuringInit == InInit => ~ublox_init_ok


FactoryDefaults == {BAUDRATE_UBX_DEFAULT, BAUDRATE_UBX_DEFAULT_NEW}

(* C35: whenever ublox_init has returned after starting negotiation, with  *)
(* true or false, the local transport is at BAUDRATE; the local rate is a  *)
(* factory default only between a failed first probe of an outer iteration *)
(* and the switch back of that iteration.                                  *)
C35_BaudAtReturn ==
    /\ app.ret \in {"init_true", "init_false"} => app.baud = BAUDRATE
    /\ app.baud \in FactoryDefaults =>
           /\ app.pc = "hs"
           /\ app.step \in {"prt1", "prt2", "probe1"}
    /\ (app.pc \in {"hs", "i_full"} /\ app.baud \notin FactoryDefaults) =>
           app.baud = BAUDRATE

(* A true return of the second stage: the first stage went through the     *)
(* default rate in each of its iterations.                                 *)
C35_Witness ==
    /\ app.pc = "idle"
    /\ app.ret = "init_true"
    /\ app.stage = 2
    /\ app.baud = BAUDRATE


(* A step in which ublox_stop is called for a UART other than the one of   *)
(* the current session.                                                    *)
StopOtherStep ==
    /\ app.pc = "idle"
    /\ app'.calls = app.calls + 1
    /\ app'.pc # "i_wait"
    /\ app'.num # m_uart_num

(* C36: ublox_stop(n) with n different from the UART number of the current *)
(* session changes nothing: the termination flag, the running flag, the    *)
(* receive tasks, the initialized indication and the session's UART stay   *)
(* as they are, and the call has returned without entering the wait.       *)
C36_StopOtherUartNoEffect ==
    [][StopOtherStep =>
          /\ should_terminate' = should_terminate
          /\ thd_rx_is_running' = thd_rx_is_running
          /\ rx_tasks' = rx_tasks
          /\ m_init_ok' = m_init_ok
          /\ m_uart_num' = m_uart_num
          /\ uart_drv' = uart_drv
          /\ app'.pc = "idle"
          /\ app'.ret = "stop_other"]_vars

(* ublox_stop for the other UART has returned while the session set up by  *)
(* a successful ublox_init is running.                                     *)
C36_Witness ==
    /\ app.pc = "idle"
    /\ app.ret = "stop_other"
    /\ app.num # m_uart_num
    /\ m_init_ok
    /\ thd_rx_is_running
    /\ ~should_terminate
    /\ ActiveTasks # {}


----------------------------------------------------------------------------
(* ublox_cfg_tp5: the time-pulse configuration request.                    *)

(* x << n on a uint32_t that stays below 2^32. *)
shl(x, n) == x * Pow2(n)

(* x & (2^bits - 1) *)
low_bits(x, bits) == x % Pow2(bits)

(* cond ? 1 : 0 *)
tern(cond) == IF cond THEN 1 ELSE 0

(* The shift of (cfg->syncMode & 0b111) in the flags word. *)
sync_shift == 8

(* The shift of (cfg->gridUtcGnss & 0b1111) in the flags word. *)
grid_shift == 7

(* uint32_t mask = 0; mask |= ... : the flags word of the request. *)
tp5_flags(cfg) ==
    LET m0 == 0
        m1 == BitOr(m0, shl(tern(cfg.active), 0))
        m2 == BitOr(m1, shl(tern(cfg.lockGnssFreq), 1))
        m3 == BitOr(m2, shl(tern(cfg.lockedOtherSet), 2))
        m4 == BitOr(m3, shl(tern(cfg.isFreq), 3))
        m5 == BitOr(m4, shl(tern(cfg.isLength), 4))
        m6 == BitOr(m5, shl(tern(cfg.alignToTow), 5))
        m7 == BitOr(m6, shl(tern(cfg.polarity), 6))
        m8 == BitOr(m7, shl(low_bits(cfg.gridUtcGnss, 4), grid_shift))
        m9 == BitOr(m8, shl(low_bits(cfg.syncMode, 3), sync_shift))
    IN  m9

(* The payload ublox_cfg_tp5 builds, in uint8_t buffer[32]. *)
tp5_payload(cfg) ==
    LET b0  == [msg |-> [i \in 1..32 |-> 0], ind |-> 0]
        b4  == ubx_put_U1(ubx_put_U1(ubx_put_U1(ubx_put_U1(b0, 0), 1), 0), 0)
        b8  == ubx_put_I2(ubx_put_I2(b4, cfg.ant_cable_delay),
                          cfg.rf_group_delay)
        b16 == ubx_put_U4(ubx_put_U4(b8, cfg.freq_period),
                          cfg.freq_period_lock)
        b24 == ubx_put_U4(ubx_put_U4(b16, cfg.pulse_len_ratio),
                          cfg.pulse_len_ratio_lock)
        b28 == ubx_put_I4(b24, cfg.user_config_delay)
        b32 == ubx_put_X4(b28, <<tp5_flags(cfg), 0>>)
    IN  SubSeq(b32.msg, 1, b32.ind)

GridVals == {0, 1, 2, 15}
SyncVals == {0, 1, 7}

(* The arguments of the modelled calls: every combination of the seven     *)
(* one-bit settings, grid and synchronisation values that reach the ends   *)
(* of their masks, and one value of each numeric field.                    *)
Tp5Cfgs ==
    [active : BOOLEAN, lockGnssFreq : BOOLEAN, lockedOtherSet : BOOLEAN,
     isFreq : BOOLEAN, isLength : BOOLEAN, alignToTow : BOOLEAN,
     polarity : BOOLEAN, gridUtcGnss : GridVals, syncMode : SyncVals,
     ant_cable_delay : {50}, rf_group_delay : {-1},
     freq_period : {<<1, 0>>}, freq_period_lock : {<<1, 0>>},
     pulse_len_ratio : {<<34464, 1>>}, pulse_len_ratio_lock : {<<34464, 1>>},
     user_config_delay : {0}]

tp5_rest == <<m_decoder_state, uart_rx, uart_tx, decoded, nmea_lines,
              rx_frame, last, scn, fed, req, rx_log, sem_log, enc_ubx, snd,
              life_vars, rx_cb, m_print_next, dsp, cod, ops, race>>

(* ublox_cfg_tp5 is called: the payload is built, the frame is handed to   *)
(* ubx_encode_send and the call enters wait_ack_nak.                       *)
Tp5Call ==
    /\ tp5.pc = "idle"
    /\ \E cfg \in Tp5Cfgs :
        tp5' = [pc |-> "waiting", cfg |-> cfg, mask |-> tp5_flags(cfg),
                frames |-> <<[id |-> "UBX_CFG_TP5",
                              msg |-> tp5_payload(cfg)]>>,
                ret |-> 0]
    /\ UNCHANGED <<wait_sem, wait_was_ack, tp5_rest>>

(* The receive task decodes an ACK-ACK or ACK-NAK of the device. *)
Tp5Reply ==
    /\ \E h \in GivingHandlers :
        /\ wait_was_ack' = ack_outcome(h)
        /\ wait_sem' = xSemaphoreGive(wait_sem)
    /\ UNCHANGED <<tp5, tp5_rest>>

(* xSemaphoreTake returns pdTRUE. *)
Tp5Take ==
    /\ tp5.pc = "waiting"
    /\ wait_sem > 0
    /\ wait_sem' = wait_sem - 1
    /\ tp5' = [tp5 EXCEPT !.pc = "done",
                          !.ret = wait_result(TRUE, wait_was_ack)]
    /\ UNCHANGED <<wait_was_ack, tp5_rest>>

(* xSemaphoreTake returns pdFALSE after CFG_ACK_WAIT_MS. *)
Tp5Timeout ==
    /\ tp5.pc = "waiting"
    /\ wait_sem = 0
    /\ tp5' = [tp5 EXCEPT !.pc = "done",
                          !.ret = wait_result(FALSE, wait_was_ack)]
    /\ UNCHANGED <<wait_sem, wait_was_ack, tp5_rest>>

NextTp5 ==
    \/ Tp5Call
    \/ Tp5Reply
    \/ Tp5Take
    \/ Tp5Timeout

SpecTp5 == Init /\ [][NextTp5]_vars

(* The bits lo .. lo + bits - 1 of the word w. *)
Field(w, lo, bits) == (w \div Pow2(lo)) % Pow2(bits)

(* The flags word as it is in the frame: bytes 28 .. 31 of the payload. *)
SentFlags ==
    LET w == ubx_get_X4([msg |-> tp5.frames[1].msg, ind |-> 28]).v
    IN  w[1] + 65536 * w[2]

(* C37: in the flags word of the time-pulse configuration request every    *)
(* field has bits of its own: each field's value is recovered from the     *)
(* bits the request places it at, and a request that differs only in the   *)
(* grid or the synchronisation mode has a different flags word.            *)
C37_FlagFieldsDisjoint ==
    tp5.pc # "idle" =>
        LET w == SentFlags
            c == tp5.cfg
        IN  /\ w = tp5.mask
            /\ Field(w, 0, 1) = tern(c.active)
            /\ Field(w, 1, 1) = tern(c.lockGnssFreq)
            /\ Field(w, 2, 1) = tern(c.lockedOtherSet)
            /\ Field(w, 3, 1) = tern(c.isFreq)
            /\ Field(w, 4, 1) = tern(c.isLength)
            /\ Field(w, 5, 1) = tern(c.alignToTow)
            /\ Field(w, 6, 1) = tern(c.polarity)
            /\ Field(w, grid_shift, 4) = c.gridUtcGnss
            /\ Field(w, sync_shift, 3) = c.syncMode
            /\ \A g \in GridVals : \A y \in SyncVals :
                   tp5_flags([c EXCEPT !.gridUtcGnss = g, !.syncMode = y]) = w
                       => (g = c.gridUtcGnss /\ y = c.syncMode)

(* The part that holds: the seven one-bit settings are recovered from      *)
(* bits 0 .. 6 of the word.                                                *)
C37_OneBitFields ==
    tp5.pc # "idle" =>
        LET w == SentFlags
            c == tp5.cfg
        IN  /\ Field(w, 0, 1) = tern(c.active)
            /\ Field(w, 1, 1) = tern(c.lockGnssFreq)
            /\ Field(w, 2, 1) = tern(c.lockedOtherSet)
            /\ Field(w, 3, 1) = tern(c.isFreq)
            /\ Field(w, 4, 1) = tern(c.isLength)
            /\ Field(w, 5, 1) = tern(c.alignToTow)
            /\ Field(w, 6, 1) = tern(c.polarity)

====
